---------------------------- MODULE Spec2Model ----------------------------
(***************************************************************************)
(* A model of the host configuration resolution engine and the bounded-    *)
(* concurrency fan-out engine of mcp-ssh (server-simple.mjs).              *)
(*                                                                         *)
(* JavaScript values are tagged records, so that values of different       *)
(* JavaScript types can be compared:                                       *)
(*   [str |-> <<"a", "b">>]   a string, as its sequence of characters      *)
(*   [halves |-> k]           the finite number k/2                        *)
(*   [kind |-> "NaN"] ...     NaN, Infinity, -Infinity, undefined, null    *)
(*   [arr |-> <<...>>]        an array                                     *)
(*   [obj |-> <<...>>]        an object, as its sequence of <<key, value>> *)
(***************************************************************************)
EXTENDS Integers, Sequences, FiniteSets, TLC

VARIABLES
    \* ---- the call in flight on the client
    op,          \* the operation called: "none" before any call
    pc,          \* where the call is: "idle", "reloading", "fanout", "done"
    args,        \* the arguments of the call
    ret,         \* what the call returned
    execCalls,   \* the invocations of the remote-execution primitive, in order
    \* ---- runWithConcurrency
    items,       \* its items
    limit,       \* its limit
    nextIndex,   \* the shared cursor
    results,     \* the results array: index -> value, or Empty
    runners,     \* one record per runner() promise
    started,     \* index -> how many times the worker was invoked for it
    returned,    \* index -> the value the worker returned for it, or Empty
    outcomes,    \* index -> how the primitive invoked for it settled, or Empty
    finished,    \* the indices in the order their workers completed
    execState,   \* the promise of runWithConcurrency
    \* ---- the group store
    groups,      \* this.groups of the client
    groupsFile,  \* the group file on disk
    groupsPath,  \* this.groupsPath of the client
    reload,      \* the map before the call's reloadGroups, and the file it read
    \* ---- host configuration resolution
    fs,          \* the configuration files on disk
    globOrder,   \* the order in which glob.sync lists its matches
    cfgPc,       \* "idle", "running", "returned", "exhausted"
    stack,       \* the activations of processIncludeDirectives, innermost last
    cfgResult,   \* what the outermost activation returned
    \* ---- calls in sequence
    seqResults,  \* the results array of runCommandBatch
    last,        \* the call completed before the current one, and its result
    \* ---- group operations in flight together
    groupOps,    \* one record per group-scoped operation of the client
    loaded,      \* the maps that loads of the group file have built so far
    \* ---- the client built on node-ssh
    ssh,         \* this.ssh, the one NodeSSH instance of the client
    sshOps       \* one record per operation called on the client

callVars == <<op, pc, args, ret, execCalls>>
execVars ==
    <<items, limit, nextIndex, results, runners, started, returned, outcomes,
      finished, execState>>
groupVars == <<groups, groupsFile, groupsPath, reload>>
cfgVars == <<fs, globOrder, cfgPc, stack, cfgResult>>
restVars == <<seqResults, last, groupOps, loaded, ssh, sshOps>>
vars == <<callVars, execVars, groupVars, cfgVars, restVars>>

-----------------------------------------------------------------------------
(* JavaScript values *)

Str(s) == [str |-> s]
Num(n) == [halves |-> 2 * n]
Half(k) == [halves |-> k]
NaN == [kind |-> "NaN"]
Infinity == [kind |-> "Infinity"]
NegInfinity == [kind |-> "-Infinity"]
Undefined == [kind |-> "undefined"]
Null == [kind |-> "null"]
Arr(a) == [arr |-> a]
Obj(o) == [obj |-> o]
Bool(b) == [bool |-> b]

\* A slot of `new Array(n)` that was never assigned.
Empty == [empty |-> TRUE]

IsString(v) == "str" \in DOMAIN v
IsArray(v) == "arr" \in DOMAIN v
IsObject(v) == "obj" \in DOMAIN v
\* Number.isFinite
IsFinite(v) == "halves" \in DOMAIN v
IsBoolean(v) == "bool" \in DOMAIN v

\* The values `||` and `!` treat as false.
Falsy(v) ==
    \/ v \in {NaN, Undefined, Null}
    \/ IsFinite(v) /\ v.halves = 0
    \/ IsString(v) /\ v.str = <<>>
    \/ IsBoolean(v) /\ ~v.bool

\* a || b
OrElse(a, b) == IF Falsy(a) THEN b ELSE a

Min(a, b) == IF a <= b THEN a ELSE b
Max(a, b) == IF a >= b THEN a ELSE b

\* String.prototype.trim on a sequence of characters.
RECURSIVE TrimStart(_)
TrimStart(s) ==
    IF s # <<>> /\ Head(s) = " " THEN TrimStart(Tail(s)) ELSE s

RECURSIVE TrimEnd(_)
TrimEnd(s) ==
    IF s # <<>> /\ s[Len(s)] = " " THEN TrimEnd(SubSeq(s, 1, Len(s) - 1)) ELSE s

Trim(s) == TrimEnd(TrimStart(s))

-----------------------------------------------------------------------------
(* Bounds *)

\* The longest item list handed to runWithConcurrency directly.
MaxItems == 3
\* The longest host list handed to runBatchCommand.
MaxHosts == 3
\* The deepest recursion of processIncludeDirectives the model follows.
MaxDepth == 5


-----------------------------------------------------------------------------
(* runWithConcurrency (server-simple.mjs 136-155) *)

\* Math.floor
MathFloor(v) == IF IsFinite(v) THEN [halves |-> 2 * (v.halves \div 2)] ELSE v

\* Math.max(1, v), for a number v
MathMax1(v) ==
    CASE IsFinite(v) -> [halves |-> Max(2, v.halves)]
      [] v = Infinity -> Infinity
      [] v = NegInfinity -> Num(1)
      [] OTHER -> NaN

\* const concurrency = Math.max(1, Math.floor(limit || 1));
Concurrency(lim) == MathMax1(MathFloor(OrElse(lim, Num(1))))

\* items.length, where the code takes Math.min(concurrency, items.length)
RunnerCountOfItems(lim, n) == n

\* const runnerCount = Math.min(concurrency, items.length);
RunnerCount(lim, n) ==
    LET c == Concurrency(lim)
    IN  CASE IsFinite(c) -> Min(c.halves \div 2, n)
          [] c = Infinity -> n
          [] OTHER -> 0

\* Faulty: the value is stored in arrival order (results.push).
StoreIndexArrival(runner) == Len(finished)

\* The index under which a runner stores the value its worker returned:
\* results[current] = await worker(items[current], current)
StoreIndex(runner) == runner.current

\* Faulty: the bound test is off by one, so the last item is never claimed.
RunnerLoopOffByOne(st, r, n) ==
    LET current == st.nextIndex
        st1 == [st EXCEPT !.nextIndex = current + 1]
    IN  IF current >= n - 1
        THEN [st1 EXCEPT !.runners[r] = [state |-> "done", current |-> current]]
        ELSE [st1 EXCEPT !.runners[r] = [state |-> "awaiting", current |-> current],
                         !.started[current] = @ + 1,
                         !.invoked = Append(@, current)]

\* One pass of runner `r` through the body of its while(true), from the top to
\* the await (the worker is invoked) or to the return.  `st` holds the cursor,
\* the runners, the invocation counts and the indices whose worker this step
\* invoked.
RunnerLoop(st, r, n) ==
    LET current == st.nextIndex
        st1 == [st EXCEPT !.nextIndex = current + 1]
    IN  IF current >= n
        THEN [st1 EXCEPT !.runners[r] = [state |-> "done", current |-> current]]
        ELSE [st1 EXCEPT !.runners[r] = [state |-> "awaiting", current |-> current],
                         !.started[current] = @ + 1,
                         !.invoked = Append(@, current)]

\* for (let i = 0; i < runnerCount; i++) runners.push(runner());
RECURSIVE SpawnRunners(_, _, _)
SpawnRunners(st, k, n) ==
    IF Len(st.runners) >= k
    THEN st
    ELSE LET r == Len(st.runners) + 1
             st1 == [st EXCEPT !.runners = Append(@, [state |-> "new", current |-> 0])]
         IN  SpawnRunners(RunnerLoop(st1, r, n), k, n)

\* The executor's state right after the synchronous part of
\* runWithConcurrency(its, lim, worker).
FanoutStart(its, lim) ==
    SpawnRunners([nextIndex |-> 0,
                  runners |-> <<>>,
                  started |-> [i \in 0 .. Len(its) - 1 |-> 0],
                  invoked |-> <<>>],
                 RunnerCount(lim, Len(its)), Len(its))

\* The results array as the sequence the caller receives.
ArrayOf(res) == [i \in 1 .. Cardinality(DOMAIN res) |-> res[i - 1]]

AllRunnersDone == \A r \in DOMAIN runners : runners[r].state = "done"

\* The invocations of the worker that have started and not yet completed.
InFlight == {r \in DOMAIN runners : runners[r].state = "awaiting"}

\* runWithConcurrency is entered with `its` and `lim`.
EnterRunWithConcurrency(its, lim, st) ==
    /\ items' = its
    /\ limit' = lim
    /\ nextIndex' = st.nextIndex
    /\ runners' = st.runners
    /\ started' = st.started
    /\ results' = [i \in 0 .. Len(its) - 1 |-> Empty]
    /\ returned' = [i \in 0 .. Len(its) - 1 |-> Empty]
    /\ outcomes' = [i \in 0 .. Len(its) - 1 |-> Empty]
    /\ finished' = <<>>
    /\ execState' = "running"

\* The worker awaited by runner `r` returns `v`: the runner stores it and goes
\* round its loop once more.
WorkerReturns(r, v, st) ==
    /\ runners[r].state = "awaiting"
    /\ results' = [results EXCEPT ![StoreIndex(runners[r])] = v]
    /\ returned' = [returned EXCEPT ![runners[r].current] = v]
    /\ finished' = Append(finished, runners[r].current)
    /\ nextIndex' = st.nextIndex
    /\ runners' = st.runners
    /\ started' = st.started
    /\ UNCHANGED <<items, limit, execState>>

\* The state after runner `r` resumed and went round its loop.
Resumed(r) ==
    RunnerLoop([nextIndex |-> nextIndex, runners |-> runners,
                started |-> started, invoked |-> <<>>], r, Len(items))

-----------------------------------------------------------------------------
(* The remote-execution primitive and runRemoteCommand (477-500) *)

\* timeout: 30000 in runRemoteCommand's call of execFile
RemoteCommandTimeoutMs == 30000
\* options.concurrency's default in runBatchCommand
DefaultConcurrency == 5
\* options.timeoutMs's default in runBatchCommand
DefaultTimeoutMs == 30000


\* How one execFile('ssh', [hostAlias, command], ...) can settle: it resolves
\* when the process exits with code 0; it rejects with an error whose code is
\* the non-zero exit code (a number), null when the process was killed on the
\* timeout, or a string such as 'ENOENT' when it could not be spawned.
ExecOutcomes ==
    { [ok |-> TRUE, stdout |-> Str(<<"o">>), stderr |-> Str(<<>>)],
      [ok |-> FALSE,
       error |-> [code |-> Num(2), stdout |-> Str(<<"o">>),
                  stderr |-> Str(<<"e">>), message |-> Str(<<"m">>)]],
      [ok |-> FALSE,
       error |-> [code |-> Null, stdout |-> Str(<<>>),
                  stderr |-> Str(<<>>), message |-> Str(<<"t">>)]],
      [ok |-> FALSE,
       error |-> [code |-> Str(<<"E">>), stdout |-> Undefined,
                  stderr |-> Undefined, message |-> Str(<<"s">>)]] }

\* The options runRemoteCommand hands to execFile.
ExecOptions(hostAlias, command) ==
    [file |-> "ssh", host |-> hostAlias, command |-> command,
     timeout |-> Num(RemoteCommandTimeoutMs)]

\* Faulty: error.code || 0
FailureCodeOrZero(error) == OrElse(error.code, Num(0))

\* code: error.code || 1
FailureCode(error) == OrElse(error.code, Num(1))

\* What runRemoteCommand returns when its execFile settles with `outcome`.
RunRemoteCommand(outcome) ==
    IF outcome.ok
    THEN [stdout |-> OrElse(outcome.stdout, Str(<<>>)),
          stderr |-> OrElse(outcome.stderr, Str(<<>>)),
          code |-> Num(0)]
    ELSE [stdout |-> OrElse(outcome.error.stdout, Str(<<>>)),
          stderr |-> OrElse(outcome.error.stderr, outcome.error.message),
          code |-> FailureCode(outcome.error)]

-----------------------------------------------------------------------------
(* uniqueStrings (123-134) and runBatchCommand (425-458) *)

\* Faulty: an entry seen before is kept again.
RECURSIVE UniqueFromKeepAll(_, _, _)
UniqueFromKeepAll(values, seen, out) ==
    IF values = <<>>
    THEN out
    ELSE LET v == Head(values)
             s == IF IsString(v) THEN Trim(v.str) ELSE <<>>
         IN  IF ~IsString(v) \/ s = <<>>
             THEN UniqueFromKeepAll(Tail(values), seen, out)
             ELSE UniqueFromKeepAll(Tail(values), seen, Append(out, Str(s)))

\* The loop of uniqueStrings over `values`, with the set `seen` and the array
\* `out`.
RECURSIVE UniqueFrom(_, _, _)
UniqueFrom(values, seen, out) ==
    IF values = <<>>
    THEN out
    ELSE LET v == Head(values)
             s == IF IsString(v) THEN Trim(v.str) ELSE <<>>
         IN  IF ~IsString(v) \/ s = <<>> \/ s \in seen
             THEN UniqueFrom(Tail(values), seen, out)
             ELSE UniqueFrom(Tail(values), seen \cup {s}, Append(out, Str(s)))

\* Faulty: the entries are not trimmed, so a blank string is kept.
RECURSIVE UniqueFromUntrimmed(_, _, _)
UniqueFromUntrimmed(values, seen, out) ==
    IF values = <<>>
    THEN out
    ELSE LET v == Head(values)
         IN  IF ~IsString(v) \/ v.str = <<>> \/ v.str \in seen
             THEN UniqueFromUntrimmed(Tail(values), seen, out)
             ELSE UniqueFromUntrimmed(Tail(values), seen \cup {v.str}, Append(out, v))

UniqueStringsUntrimmed(values) == UniqueFromUntrimmed(values, {}, <<>>)

\* uniqueStrings(values)
UniqueStrings(values) == UniqueFrom(values, {}, <<>>)

\* hosts || []
HostsOrEmpty(hosts) == IF IsArray(hosts) THEN hosts.arr ELSE <<>>

\* typeof command !== 'string' || command === '', without the trim
NoCommandUntrimmed(command) == ~IsString(command) \/ command.str = <<>>

\* typeof command !== 'string' || command.trim() === ''
NoCommand(command) == ~IsString(command) \/ Trim(command.str) = <<>>

\* Number.isFinite(options.concurrency) ? options.concurrency : 5
BatchConcurrency(options) ==
    IF IsFinite(options.concurrency) THEN options.concurrency
    ELSE Num(DefaultConcurrency)

\* Number.isFinite(options.timeoutMs) ? options.timeoutMs : 30000
PerHostTimeoutMs(options) ==
    IF IsFinite(options.timeoutMs) THEN options.timeoutMs
    ELSE Num(DefaultTimeoutMs)

Message(text) == [text |-> text]

Failure(message) == [results |-> <<>>, success |-> FALSE, message |-> message]

\* Faulty: results.some(r => r && r.code === 0)
SomeCodeZero(res) ==
    \E i \in DOMAIN res : res[i] # Empty /\ res[i].code = Num(0)

\* results.every(r => r && r.code === 0)
EveryCodeZero(res) ==
    \A i \in DOMAIN res : res[i] # Empty /\ res[i].code = Num(0)

\* The worker of runBatchCommand: { host: hostAlias, ...result }
BatchWorkerValue(hostAlias, outcome) ==
    LET result == RunRemoteCommand(outcome)
    IN  [host |-> hostAlias, stdout |-> result.stdout,
         stderr |-> result.stderr, code |-> result.code]

\* The invocations of the primitive made by the workers started for the
\* indices `invoked` of `hostList`.
Invocations(invoked, hostList, command) ==
    [j \in 1 .. Len(invoked) |-> ExecOptions(hostList[invoked[j] + 1], command)]

\* runBatchCommand(hosts, command, options), from its entry to its first await
\* or to its early return.
EnterRunBatchCommand(hosts, command, options) ==
    LET hostList == UniqueStrings(HostsOrEmpty(hosts))
        st == FanoutStart(hostList, BatchConcurrency(options))
    IN  IF hostList = <<>>
        THEN /\ pc' = "done"
             /\ ret' = Failure(Message("No hosts provided"))
             /\ UNCHANGED <<execCalls, execVars>>
        ELSE IF NoCommand(command)
        THEN /\ pc' = "done"
             /\ ret' = Failure(Message("No command provided"))
             /\ UNCHANGED <<execCalls, execVars>>
        ELSE /\ pc' = "fanout"
             /\ ret' = ret
             /\ EnterRunWithConcurrency(hostList, BatchConcurrency(options), st)
             /\ execCalls' = execCalls \o Invocations(st.invoked, hostList, command)

-----------------------------------------------------------------------------
(* loadGroupsFile (102-121), reloadGroups (410-417), runGroupCommand (460-471) *)

NoGroups == [k \in {} |-> Arr(<<>>)]

Digits == <<"0", "1", "2", "3", "4", "5", "6", "7", "8", "9">>

\* Object.entries(parsed): of an object its own <<key, value>> pairs, of an
\* array the pairs <<index as a string, element>>.
ObjectEntries(parsed) ==
    IF IsObject(parsed) THEN parsed.obj
    ELSE [i \in 1 .. Len(parsed.arr) |-> <<<<Digits[i]>>, parsed.arr[i]>>]

\* hosts.filter(h => typeof h === 'string'), without the check of the trimmed
\* string
FilterHostsOfStrings(hosts) == SelectSeq(hosts, IsString)

\* hosts.filter(h => typeof h === 'string' && h.trim() !== '')
RECURSIVE FilterHosts(_)
FilterHosts(hosts) ==
    IF hosts = <<>>
    THEN <<>>
    ELSE LET h == Head(hosts)
         IN  IF IsString(h) /\ Trim(h.str) # <<>>
             THEN <<h>> \o FilterHosts(Tail(hosts))
             ELSE FilterHosts(Tail(hosts))

\* The map loadGroupsFile returns for the file `file`: readFile or JSON.parse
\* throwing is caught and gives {}.
LoadGroupsFile(file) ==
    IF file.kind # "json"
    THEN NoGroups
    ELSE LET parsed == file.value
         IN  IF ~Falsy(parsed) /\ (IsObject(parsed) \/ IsArray(parsed))
             THEN LET entries == ObjectEntries(parsed)
                      kept == {i \in DOMAIN entries : IsArray(entries[i][2])}
                  IN  [k \in {entries[i][1] : i \in kept} |->
                         LET i == CHOOSE j \in kept : entries[j][1] = k
                         IN  Arr(FilterHosts(entries[i][2].arr))]
             ELSE NoGroups

\* typeof group === 'string' ? group.trim() : ''
GroupName(group) == IF IsString(group) THEN Trim(group.str) ELSE <<>>

\* this.groups[groupName] || []
GroupHosts(map, groupName) ==
    OrElse(IF groupName \in DOMAIN map THEN map[groupName] ELSE Undefined,
           Arr(<<>>))

\* `Group not found or empty: ${groupName}`
GroupNotFound(groupName) ==
    [text |-> "Group not found or empty: ", name |-> groupName]

-----------------------------------------------------------------------------
(* Inputs *)

\* Items handed to runWithConcurrency directly, and what its worker returns.
ItemValues == {"a", "b"}
WorkerValues == {"x", "y"}
ItemLists == UNION {[1 .. n -> ItemValues] : n \in 0 .. MaxItems}

\* Limits: whole and fractional numbers, zero, negative, and the non-finite.
Limits ==
    {Num(1), Num(2), Num(3), Num(7), Half(5), Half(1), Num(0), Num(-1),
     NaN, Infinity, NegInfinity, Undefined}

\* Entries of a hosts argument: names, a name with blanks around it, a blank
\* string, and a value that is no string.
HostEntries ==
    {Str(<<"a">>), Str(<<"b">>), Str(<<"c">>), Str(<<" ", "a">>), Str(<<" ">>),
     Num(42)}
HostArgs ==
    {Undefined} \cup {Arr(h) : h \in UNION {[1 .. n -> HostEntries] : n \in 0 .. MaxHosts}}

CommandArgs == {Str(<<"l", "s">>), Str(<<" ">>), Str(<<>>), Undefined}

OptionArgs ==
    { [concurrency |-> Undefined, timeoutMs |-> Undefined],
      [concurrency |-> Num(1), timeoutMs |-> Num(5000)],
      [concurrency |-> Num(2), timeoutMs |-> NaN],
      [concurrency |-> Num(0), timeoutMs |-> Num(60000)] }

\* Group files: missing, not JSON, documents whose top level is an array, a
\* string, a number or null, and two documents whose top level is an object.
GroupFiles ==
    { [kind |-> "missing"],
      [kind |-> "invalid"],
      [kind |-> "json", value |-> Arr(<<Arr(<<Str(<<"a">>)>>), Str(<<"b">>)>>)],
      [kind |-> "json", value |-> Arr(<<Str(<<"a">>)>>)],
      [kind |-> "json", value |-> Str(<<"a">>)],
      [kind |-> "json", value |-> Num(5)],
      [kind |-> "json", value |-> Null],
      [kind |-> "json",
       value |-> Obj(<< <<<<"w">>, Arr(<<Str(<<"a">>), Str(<<"b">>)>>)>>,
                        <<<<"e">>, Arr(<<>>)>>,
                        <<<<"x">>, Str(<<"a">>)>> >>)],
      [kind |-> "json",
       value |-> Obj(<< <<<<"w">>, Arr(<<Str(<<"b">>), Str(<<" ">>), Num(42),
                                        Str(<<" ", "a">>)>>)>>,
                        <<<<"d">>, Arr(<<Str(<<"a">>)>>)>> >>)] }

GroupArgs ==
    {Str(<<"w">>), Str(<<" ", "w", " ">>), Str(<<"d">>), Str(<<"e">>),
     Str(<<"x">>), Str(<<"z">>), Str(<<" ">>), Undefined}

-----------------------------------------------------------------------------
(* The calls *)

NoArgs == [none |-> TRUE]
NoRet == [none |-> TRUE]

ExecIdle ==
    /\ items = <<>>
    /\ limit = Undefined
    /\ nextIndex = 0
    /\ results = <<>>
    /\ runners = <<>>
    /\ started = <<>>
    /\ returned = <<>>
    /\ outcomes = <<>>
    /\ finished = <<>>
    /\ execState = "idle"

CallIdle ==
    /\ op = "none"
    /\ pc = "idle"
    /\ args = NoArgs
    /\ ret = NoRet
    /\ execCalls = <<>>

\* No call was completed yet.
NoCall == [none |-> TRUE]

RestIdle ==
    /\ seqResults = <<>>
    /\ last = NoCall
    /\ groupOps = <<>>
    /\ loaded = {}
    /\ ssh = [connection |-> 0]
    /\ sshOps = <<>>

CfgIdle ==
    /\ fs = <<>>
    /\ globOrder = <<>>
    /\ cfgPc = "idle"
    /\ stack = <<>>
    /\ cfgResult = <<>>

\* runWithConcurrency(its, lim, worker) is called with a worker that returns
\* or throws as it likes.
CallRunWithConcurrency ==
    /\ pc = "idle"
    /\ \E its \in ItemLists, lim \in Limits :
          /\ op' = "runWithConcurrency"
          /\ args' = [items |-> its, limit |-> lim]
          /\ EnterRunWithConcurrency(its, lim, FanoutStart(its, lim))
    /\ pc' = "fanout"
    /\ UNCHANGED <<ret, execCalls, groupVars, cfgVars>>
    /\ UNCHANGED restVars

\* What the worker of the direct call, invoked as worker(item, index), returns
\* when it returns `v`.
WorkerValue(item, index, v) == [item |-> item, index |-> index, value |-> v]

\* A worker of the direct call returns a value.
WorkerResolves ==
    /\ op = "runWithConcurrency"
    /\ \E r \in DOMAIN runners, v \in WorkerValues :
          /\ runners[r].state = "awaiting"
          /\ WorkerReturns(r, WorkerValue(items[runners[r].current + 1],
                                          runners[r].current, v),
                           Resumed(r))
    /\ UNCHANGED outcomes
    /\ UNCHANGED <<callVars, groupVars, cfgVars>>
    /\ UNCHANGED restVars

\* A worker of the direct call throws: its runner's promise rejects, and with
\* it Promise.all, so the call raises; the other runners go on.
WorkerThrows ==
    /\ op = "runWithConcurrency"
    /\ \E r \in DOMAIN runners :
          /\ runners[r].state = "awaiting"
          /\ runners' = [runners EXCEPT ![r].state = "rejected"]
    /\ execState' = IF execState = "running" THEN "rejected" ELSE execState
    /\ pc' = "done"
    /\ ret' = IF execState = "running" THEN [threw |-> TRUE] ELSE ret
    /\ UNCHANGED <<op, args, execCalls, items, limit, nextIndex, results,
                   started, returned, outcomes, finished, groupVars, cfgVars>>
    /\ UNCHANGED restVars

\* await Promise.all(runners); return results;
RunWithConcurrencyReturns ==
    /\ op = "runWithConcurrency"
    /\ execState = "running"
    /\ AllRunnersDone
    /\ execState' = "returned"
    /\ pc' = "done"
    /\ ret' = ArrayOf(results)
    /\ UNCHANGED <<op, args, execCalls, items, limit, nextIndex, results,
                   runners, started, returned, outcomes, finished, groupVars,
                   cfgVars>>
    /\ UNCHANGED restVars

\* runBatchCommand(hosts, command, options) is called.
CallRunBatchCommand ==
    /\ pc = "idle"
    /\ \E hosts \in HostArgs, command \in CommandArgs, options \in OptionArgs :
          /\ op' = "runBatchCommand"
          /\ args' = [hosts |-> hosts, command |-> command, options |-> options]
          /\ EnterRunBatchCommand(hosts, command, options)
    /\ UNCHANGED <<groupVars, cfgVars>>
    /\ UNCHANGED restVars

\* The execFile awaited by runner r's worker settles; runRemoteCommand returns,
\* the worker returns, and the runner goes round its loop, which may invoke
\* the primitive for the next host.
ExecFileSettles ==
    /\ op \in {"runBatchCommand", "runGroupCommand"}
    /\ pc = "fanout"
    /\ \E r \in DOMAIN runners, outcome \in ExecOutcomes :
          /\ runners[r].state = "awaiting"
          /\ outcomes' = [outcomes EXCEPT ![runners[r].current] = outcome]
          /\ WorkerReturns(r, BatchWorkerValue(items[runners[r].current + 1], outcome),
                           Resumed(r))
          /\ execCalls' = execCalls \o
                Invocations(Resumed(r).invoked, items, args.command)
    /\ UNCHANGED <<op, pc, args, ret, groupVars, cfgVars>>
    /\ UNCHANGED restVars

\* runWithConcurrency returns to runBatchCommand, which returns.
RunBatchCommandReturns ==
    /\ op \in {"runBatchCommand", "runGroupCommand"}
    /\ pc = "fanout"
    /\ execState = "running"
    /\ AllRunnersDone
    /\ execState' = "returned"
    /\ pc' = "done"
    /\ ret' = [results |-> ArrayOf(results), success |-> EveryCodeZero(results)]
    /\ UNCHANGED <<op, args, execCalls, items, limit, nextIndex, results,
                   runners, started, returned, outcomes, finished, groupVars,
                   cfgVars>>
    /\ UNCHANGED restVars

\* runGroupCommand(group, command, options) is called: reloadGroups starts
\* reading the group file, or, with no groups path, empties the map.
CallRunGroupCommand ==
    /\ pc = "idle"
    /\ \E group \in GroupArgs, options \in OptionArgs :
          /\ op' = "runGroupCommand"
          /\ args' = [group |-> group, command |-> Str(<<"l", "s">>),
                      options |-> options]
    /\ IF groupsPath = Undefined
       THEN groups' = NoGroups /\ pc' = "reloaded"
       ELSE groups' = groups /\ pc' = "reloading"
    /\ reload' = [before |-> groups, file |-> Empty]
    /\ UNCHANGED <<ret, execCalls, execVars, groupsFile, groupsPath, cfgVars>>
    /\ UNCHANGED restVars

\* Faulty: the loaded map is not assigned to this.groups.
ReloadGroupsDiscarded ==
    /\ pc = "reloading"
    /\ groups' = groups
    /\ reload' = [reload EXCEPT !.file = groupsFile]
    /\ pc' = "reloaded"
    /\ UNCHANGED <<op, args, ret, execCalls, execVars, groupsFile, groupsPath, cfgVars>>
    /\ UNCHANGED restVars

\* Faulty: the loaded groups are merged into the map the client holds.
ReloadGroupsMerged ==
    /\ pc = "reloading"
    /\ groups' = LoadGroupsFile(groupsFile) @@ groups
    /\ reload' = [reload EXCEPT !.file = groupsFile]
    /\ pc' = "reloaded"
    /\ UNCHANGED <<op, args, ret, execCalls, execVars, groupsFile, groupsPath, cfgVars>>
    /\ UNCHANGED restVars

\* loadGroupsFile settles with the file as it is now; reloadGroups assigns
\* this.groups.
ReloadGroupsSettles ==
    /\ pc = "reloading"
    /\ groups' = LoadGroupsFile(groupsFile)
    /\ reload' = [reload EXCEPT !.file = groupsFile]
    /\ pc' = "reloaded"
    /\ UNCHANGED <<op, args, ret, execCalls, execVars, groupsFile, groupsPath, cfgVars>>
    /\ UNCHANGED restVars

\* runGroupCommand resumes after `await this.reloadGroups()`.
RunGroupCommandResumes ==
    /\ op = "runGroupCommand"
    /\ pc = "reloaded"
    /\ LET groupName == GroupName(args.group)
           hosts == GroupHosts(groups, groupName)
       IN  IF groupName = <<>>
           THEN /\ pc' = "done"
                /\ ret' = Failure(Message("No group provided"))
                /\ UNCHANGED <<execCalls, execVars>>
           ELSE IF ~IsArray(hosts) \/ hosts.arr = <<>>
           THEN /\ pc' = "done"
                /\ ret' = Failure(GroupNotFound(groupName))
                /\ UNCHANGED <<execCalls, execVars>>
           ELSE EnterRunBatchCommand(hosts, args.command, args.options)
    /\ UNCHANGED <<op, args, groupVars, cfgVars>>
    /\ UNCHANGED restVars

\* Somebody edits, removes or breaks the group file.
EditGroupsFile ==
    /\ pc \in {"idle", "reloading"}
    /\ groupsFile' \in GroupFiles \ {groupsFile}
    /\ UNCHANGED <<callVars, execVars, groups, groupsPath, reload, cfgVars>>
    /\ UNCHANGED restVars

-----------------------------------------------------------------------------
(* Specifications *)

\* runWithConcurrency alone.
InitExec ==
    /\ CallIdle /\ ExecIdle /\ CfgIdle /\ RestIdle
    /\ groups = NoGroups
    /\ groupsFile = [kind |-> "missing"]
    /\ groupsPath = Undefined
    /\ reload = [before |-> NoGroups, file |-> Empty]

NextExec ==
    \/ CallRunWithConcurrency
    \/ WorkerResolves
    \/ WorkerThrows
    \/ RunWithConcurrencyReturns

SpecExec == InitExec /\ [][NextExec]_vars

\* runBatchCommand on a client.
InitBatch == InitExec

NextBatch ==
    \/ CallRunBatchCommand
    \/ ExecFileSettles
    \/ RunBatchCommandReturns

SpecBatch == InitBatch /\ [][NextBatch]_vars

\* runGroupCommand on a client constructed by main(): its groups are those of
\* the group file as main() loaded it (695-700).
InitGroup ==
    /\ CallIdle /\ ExecIdle /\ CfgIdle /\ RestIdle
    /\ groupsFile \in GroupFiles
    /\ groupsPath \in {Str(<<"g">>), Undefined}
    /\ groups = LoadGroupsFile(groupsFile)
    /\ reload = [before |-> NoGroups, file |-> Empty]

NextGroup ==
    \/ CallRunGroupCommand
    \/ ReloadGroupsSettles
    \/ RunGroupCommandResumes
    \/ EditGroupsFile
    \/ ExecFileSettles
    \/ RunBatchCommandReturns

SpecGroup == InitGroup /\ [][NextGroup]_vars

-----------------------------------------------------------------------------
(* Claims about runWithConcurrency *)

ExecReturned == op = "runWithConcurrency" /\ execState = "returned"

\* C1: whatever the items, the limit and the order in which the workers
\* complete, the array runWithConcurrency returns is as long as the items and
\* holds at index i the value the worker returned for items[i], the worker
\* having been invoked with items[i] and i.
C1_IndexAlignment ==
    ExecReturned =>
        /\ Len(ret) = Len(items)
        /\ \A i \in 1 .. Len(items) :
              /\ ret[i] # Empty
              /\ ret[i] = returned[i - 1]
              /\ ret[i].item = items[i]
              /\ ret[i].index = i - 1

\* C1's case: three items run by two runners, the worker of the second item
\* completing first and that of the first item last.
C1_Witness ==
    /\ ExecReturned
    /\ Len(items) = 3
    /\ limit = Num(2)
    /\ finished = <<1, 2, 0>>

\* C2: when runWithConcurrency returns, the worker has been invoked exactly
\* once for each index 0 .. items.length-1, every invocation has completed and
\* no result slot is empty, for limits below, at and above the item count.
C2_ExactlyOnce ==
    ExecReturned =>
        /\ DOMAIN started = 0 .. Len(items) - 1
        /\ \A i \in 0 .. Len(items) - 1 : started[i] = 1 /\ results[i] # Empty
        /\ InFlight = {}
        /\ Len(finished) = Len(items)

\* C2's case: a limit above the item count, with three items processed.
C2_Witness ==
    /\ ExecReturned
    /\ Len(items) = 3
    /\ limit = Num(7)
    /\ Len(runners) = 3

-----------------------------------------------------------------------------
(* Claims about runBatchCommand *)

\* The call went through runBatchCommand's two checks and fanned out, and has
\* returned.
BatchFannedOut ==
    op = "runBatchCommand" /\ pc = "done" /\ execState = "returned"

\* The hosts whose remote-execution call failed.
FailedHosts == {i \in DOMAIN outcomes : outcomes[i] # Empty /\ ~outcomes[i].ok}

IsBlank(s) == \A i \in DOMAIN s : s[i] = " "

\* A hosts argument with no entry that is a string with a non-blank character.
NoHostGiven(hosts) ==
    IsArray(hosts) => \A i \in DOMAIN hosts.arr :
                         ~IsString(hosts.arr[i]) \/ IsBlank(hosts.arr[i].str)

CommandGiven(command) == IsString(command) /\ ~IsBlank(command.str)

\* C3: a runBatchCommand call with a host and a non-blank command fans out
\* and never raises; when it returns, whichever hosts' remote executions
\* failed, the primitive was invoked once for every host of the deduplicated
\* list, there is one result per host, each failed host's result has a
\* non-zero code, and success is false if any host failed.
C3_BatchIsolation ==
    /\ (op = "runBatchCommand" /\ ~NoHostGiven(args.hosts)
           /\ CommandGiven(args.command))
          => execState \in {"running", "returned"}
    /\ BatchFannedOut =>
          /\ Len(execCalls) = Len(items)
          /\ \A i \in 1 .. Len(items) : execCalls[i].host = items[i]
          /\ "results" \in DOMAIN ret
          /\ Len(ret.results) = Len(items)
          /\ \A i \in 1 .. Len(items) : ret.results[i].host = items[i]
          /\ \A i \in FailedHosts : ret.results[i + 1].code # Num(0)
          /\ FailedHosts # {} => ret.success = FALSE

\* C3's case: three hosts run one at a time, the second timing out and the
\* third still executed, successfully.
C3_Witness ==
    /\ BatchFannedOut
    /\ Len(items) = 3
    /\ args.options.concurrency = Num(1)
    /\ FailedHosts = {1}
    /\ outcomes[1].error.code = Null
    /\ ret.results[3].code = Num(0)

\* C4: the success flag runBatchCommand returns with its per-host results is
\* true iff every per-host result has exit code 0, and a host whose primitive
\* invocation failed never has code 0.
C4_SuccessIffAllZero ==
    BatchFannedOut =>
        /\ ret.success = (\A i \in DOMAIN ret.results : ret.results[i].code = Num(0))
        /\ \A i \in DOMAIN ret.results :
              ret.results[i].code = Num(0) => outcomes[i - 1].ok

\* C4's case: two hosts, one succeeding and one whose process was killed on
\* the timeout (error.code null), so that its code is the default 1.
C4_Witness ==
    /\ BatchFannedOut
    /\ Len(items) = 2
    /\ outcomes[0].ok
    /\ ~outcomes[1].ok /\ outcomes[1].error.code = Null
    /\ ret.results[2].code = Num(1)
    /\ ret.success = FALSE

\* C5: when no host is left after filtering and deduplication (hosts absent,
\* empty, or holding only blank strings and non-strings), runBatchCommand
\* returns {results: [], success: false, message: "No hosts provided"} and the
\* remote-execution primitive is never invoked.
C5_NoHostsShortCircuit ==
    (op = "runBatchCommand" /\ NoHostGiven(args.hosts)) =>
        /\ pc = "done"
        /\ ret = [results |-> <<>>, success |-> FALSE,
                  message |-> [text |-> "No hosts provided"]]
        /\ execCalls = <<>>
        /\ execState = "idle"

\* C5's case: a hosts array of a blank string and a number, with a command.
C5_Witness ==
    /\ op = "runBatchCommand"
    /\ args.hosts = Arr(<<Str(<<" ">>), Num(42)>>)
    /\ CommandGiven(args.command)
    /\ pc = "done"

\* C6: every invocation of the remote-execution primitive made by
\* runBatchCommand carries as its timeout the caller's timeoutMs option, or
\* 30000 when none is given.
C6_TimeoutOptionUsed ==
    op = "runBatchCommand" =>
        \A i \in DOMAIN execCalls :
            execCalls[i].timeout = PerHostTimeoutMs(args.options)

-----------------------------------------------------------------------------
(* Claims about runGroupCommand *)

\* The group file `file` holds no list with an entry under `name`.
FileLacksGroup(file, name) ==
    \/ file.kind # "json"
    \/ ~IsObject(file.value)
    \/ \A i \in DOMAIN file.value.obj :
          LET e == file.value.obj[i]
          IN  e[1] = name =>
                 \/ ~IsArray(e[2])
                 \/ \A j \in DOMAIN e[2].arr :
                       ~IsString(e[2].arr[j]) \/ IsBlank(e[2].arr[j].str)

\* C7: runGroupCommand resolves the group in the map loaded from the group
\* file as its own reloadGroups read it (the empty map when no groups path is
\* set); when that file has no such group, or an empty one, the call returns a
\* failure whose message names the group, and neither the executor nor the
\* remote-execution primitive is invoked.
C7_GroupMissing ==
    (op = "runGroupCommand" /\ pc \in {"reloaded", "fanout", "done"}) =>
        /\ groupsPath # Undefined => reload.file # Empty
        /\ (/\ pc = "done"
            /\ GroupName(args.group) # <<>>
            /\ \/ groupsPath = Undefined
               \/ FileLacksGroup(reload.file, GroupName(args.group)))
              => /\ ret.success = FALSE
                 /\ ret.results = <<>>
                 /\ ret.message.name = GroupName(args.group)
                 /\ execCalls = <<>>
                 /\ execState = "idle"

\* C7's case: the client's map held group d when the call was made, the file
\* had since been replaced by one without d, and the call failed naming d.
C7_Witness ==
    /\ op = "runGroupCommand"
    /\ pc = "done"
    /\ args.group = Str(<<"d">>)
    /\ <<"d">> \in DOMAIN reload.before
    /\ reload.file # Empty
    /\ reload.file.kind = "json"
    /\ ret.message = [text |-> "Group not found or empty: ", name |-> <<"d">>]

-----------------------------------------------------------------------------
(* Configuration files: sshConfig.parse, expandIncludePath (257-284),        *)
(* extractHostsFromConfig (286-336)                                          *)

\* A string of a configuration file is the sequence of its segments between
\* slashes: a plain word is one segment, the empty string none, an absolute
\* path starts with the segment "/".
Homedir == <<"/", "h">>
\* this.configPath
ConfigPath == <<"/", "h", "cfg">>
PathB == <<"/", "h", "b">>
PathC == <<"/", "h", "d", "c">>
PathE == <<"/", "h", "d", "e">>
Paths == {ConfigPath, PathB, PathC, PathE}

\* String.prototype.toLowerCase on the directive names of the model.
Lower(name) ==
    CASE name = "Host" -> "host"
      [] name = "Match" -> "match"
      [] name = "Include" -> "include"
      [] name = "HostName" -> "hostname"
      [] name = "User" -> "user"
      [] name = "Port" -> "port"
      [] name = "IdentityFile" -> "identityfile"
      [] name = "ProxyJump" -> "proxyjump"
      [] name = "Alias" -> "alias"
      [] name = "Source" -> "source"
      [] OTHER -> name

\* A line of a file: a directive or a comment.
Directive(param, value) == [param |-> param, value |-> value]
CommentLine == [comment |-> TRUE]

IsDirective(line) == "param" \in DOMAIN line
IsSection(node) == "config" \in DOMAIN node

\* sshConfig.parse: a Host or Match line (in any case) opens a section at the
\* top level; every other line goes into the section open at that point, or
\* to the top level when none is open yet.
RECURSIVE ParseFrom(_, _)
ParseFrom(lines, sections) ==
    IF lines = <<>>
    THEN sections
    ELSE LET line == Head(lines)
         IN  IF IsDirective(line) /\ Lower(line.param) \in {"host", "match"}
             THEN ParseFrom(Tail(lines),
                            Append(sections, [param |-> line.param,
                                              value |-> line.value,
                                              config |-> <<>>]))
             ELSE IF sections # <<>> /\ IsSection(sections[Len(sections)])
             THEN ParseFrom(Tail(lines),
                            [sections EXCEPT ![Len(sections)].config = Append(@, line)])
             ELSE ParseFrom(Tail(lines), Append(sections, line))

SshConfigParse(lines) == ParseFrom(lines, <<>>)

\* existsSync
ExistsSync(path) == path \in DOMAIN fs /\ fs[path].kind # "missing"

\* path.dirname
Dirname(path) == SubSeq(path, 1, Len(path) - 1)

\* Whether the pattern matches the path, "*" standing for any one segment.
GlobMatches(pattern, path) ==
    /\ Len(pattern) = Len(path)
    /\ \A i \in DOMAIN pattern : pattern[i] = "*" \/ pattern[i] = path[i]

\* glob.sync(pattern)
GlobSync(pattern) ==
    SelectSeq(globOrder, LAMBDA path : ExistsSync(path) /\ GlobMatches(pattern, path))

\* expandIncludePath(includePath, baseConfigPath)
ExpandIncludePath(includePath, baseConfigPath) ==
    LET tilde == IF Len(includePath) > 1 /\ Head(includePath) = "~"
                 THEN Homedir \o Tail(includePath)
                 ELSE includePath
        full == IF Head(tilde) # "/"
                THEN Dirname(baseConfigPath) \o tilde
                ELSE tilde
    IN  IF \E i \in DOMAIN full : full[i] = "*"
        THEN SelectSeq(GlobSync(full), ExistsSync)
        ELSE IF ExistsSync(full) THEN <<full>> ELSE <<>>

\* parseInt(value, 10) on the port values of the model.
ParseInt(value) ==
    CASE value = <<"22">> -> Num(22)
      [] value = <<"2222">> -> Num(2222)
      [] OTHER -> NaN

\* A host record is the function from its property names to their values.
SetProperty(hostInfo, name, value) == (name :> value) @@ hostInfo

\* The switch of extractHostsFromConfig on one inner line of a Host section.
ApplyParam(hostInfo, param) ==
    IF ~IsDirective(param)
    THEN hostInfo
    ELSE CASE Lower(param.param) = "hostname" ->
                SetProperty(hostInfo, "hostname", param.value)
           [] Lower(param.param) = "user" ->
                SetProperty(hostInfo, "user", param.value)
           [] Lower(param.param) = "port" ->
                SetProperty(hostInfo, "port", ParseInt(param.value))
           [] Lower(param.param) = "identityfile" ->
                SetProperty(hostInfo, "identityFile", param.value)
           [] OTHER ->
                SetProperty(hostInfo, Lower(param.param), param.value)

RECURSIVE ApplyParams(_, _)
ApplyParams(hostInfo, params) ==
    IF params = <<>>
    THEN hostInfo
    ELSE ApplyParams(ApplyParam(hostInfo, Head(params)), Tail(params))

\* extractHostsFromConfig(config, configPath)
RECURSIVE ExtractHostsFromConfig(_, _)
ExtractHostsFromConfig(config, configPath) ==
    IF config = <<>>
    THEN <<>>
    ELSE LET section == Head(config)
             rest == ExtractHostsFromConfig(Tail(config), configPath)
         IN  IF IsDirective(section) /\ section.param = "Include"
             THEN rest
             ELSE IF IsSection(section) /\ section.param = "Host"
                     /\ section.value # <<"*">>
             THEN LET hostInfo ==
                          ApplyParams([hostname |-> <<>>, alias |-> section.value,
                                       configFile |-> configPath],
                                      section.config)
                  IN  IF hostInfo.hostname # <<>>
                      THEN <<hostInfo>> \o rest
                      ELSE rest
             ELSE rest

-----------------------------------------------------------------------------
(* processIncludeDirectives (208-255) *)

\* An activation of processIncludeDirectives(configPath) after its readFile:
\* the parsed config, the index of the next section of `for (const section of
\* config)`, the include paths of the current Include still to be processed,
\* and the hosts array.
Activation(configPath, config) ==
    [path |-> configPath, config |-> config, i |-> 1, pending |-> <<>>,
     hosts |-> <<>>]

Top == stack[Len(stack)]

\* Faulty: the file's own hosts are put before those of its includes.
FileHostsOwnFirst(included, own) == own \o included

\* Faulty: a host of the file whose alias an included file has already given
\* is left out.
FileHostsOncePerAlias(included, own) ==
    included \o SelectSeq(own, LAMBDA host :
                    \A i \in DOMAIN included : included[i].alias # host.alias)

\* hosts.push(...currentHosts): the hosts an activation returns, from those its
\* includes gave and those of its own file.
FileHosts(included, own) == included \o own

\* An activation returns `hosts` to its caller: the activation on top of
\* `stk`, which pushes them, or the outermost caller.
Deliver(hosts, stk) ==
    IF stk = <<>>
    THEN [stack |-> <<>>, pc |-> "returned", result |-> hosts]
    ELSE [stack |-> [stk EXCEPT ![Len(stk)].hosts = @ \o hosts],
          pc |-> "running", result |-> <<>>]

\* Faulty: a file that cannot be read or parsed ends the whole resolution with
\* no hosts.
InvokeOrGiveUp(configPath, stk) ==
    IF ~ExistsSync(configPath)
    THEN Deliver(<<>>, stk)
    ELSE IF fs[configPath].kind # "file"
    THEN [stack |-> <<>>, pc |-> "returned", result |-> <<>>]
    ELSE IF Len(stk) >= MaxDepth
    THEN [stack |-> stk, pc |-> "exhausted", result |-> <<>>]
    ELSE [stack |-> Append(stk, Activation(configPath,
                                           SshConfigParse(fs[configPath].lines))),
          pc |-> "running", result |-> <<>>]

\* processIncludeDirectives(configPath) is called by the activation on top of
\* `stk`: a missing file, and a file that cannot be read, return []; else the
\* file is parsed and a new activation starts.  The recursion is followed to
\* the depth MaxDepth.
Invoke(configPath, stk) ==
    IF ~ExistsSync(configPath) \/ fs[configPath].kind # "file"
    THEN Deliver(<<>>, stk)
    ELSE IF Len(stk) >= MaxDepth
    THEN [stack |-> stk, pc |-> "exhausted", result |-> <<>>]
    ELSE [stack |-> Append(stk, Activation(configPath,
                                           SshConfigParse(fs[configPath].lines))),
          pc |-> "running", result |-> <<>>]

Becomes(next) ==
    /\ stack' = next.stack
    /\ cfgPc' = next.pc
    /\ cfgResult' = next.result

\* getAllKnownHosts and getHostInfo call
\* processIncludeDirectives(this.configPath).
CallProcessIncludeDirectives ==
    /\ cfgPc = "idle"
    /\ Becomes(Invoke(ConfigPath, <<>>))
    /\ UNCHANGED <<fs, globOrder, callVars, execVars, groupVars>>
    /\ UNCHANGED restVars

\* The innermost activation takes the next section of its config: an Include
\* with a value is expanded.
NextSection ==
    /\ cfgPc = "running"
    /\ Top.pending = <<>>
    /\ Top.i <= Len(Top.config)
    /\ LET section == Top.config[Top.i]
       IN  stack' = [stack EXCEPT
                ![Len(stack)].i = @ + 1,
                ![Len(stack)].pending =
                    IF IsDirective(section) /\ section.param = "Include"
                       /\ section.value # <<>>
                    THEN ExpandIncludePath(section.value, Top.path)
                    ELSE <<>>]
    /\ UNCHANGED <<fs, globOrder, cfgPc, cfgResult, callVars, execVars, groupVars>>
    /\ UNCHANGED restVars

\* The innermost activation processes the next include path of its Include.
NextIncludePath ==
    /\ cfgPc = "running"
    /\ Top.pending # <<>>
    /\ Becomes(Invoke(Head(Top.pending),
                      [stack EXCEPT ![Len(stack)].pending = Tail(@)]))
    /\ UNCHANGED <<fs, globOrder, callVars, execVars, groupVars>>
    /\ UNCHANGED restVars

\* The innermost activation is through its sections: it adds the hosts of its
\* own file and returns.
ReturnHosts ==
    /\ cfgPc = "running"
    /\ Top.pending = <<>>
    /\ Top.i > Len(Top.config)
    /\ Becomes(Deliver(FileHosts(Top.hosts,
                                 ExtractHostsFromConfig(Top.config, Top.path)),
                       SubSeq(stack, 1, Len(stack) - 1)))
    /\ UNCHANGED <<fs, globOrder, callVars, execVars, groupVars>>
    /\ UNCHANGED restVars

-----------------------------------------------------------------------------
(* Configuration files of the model *)

HostBlock(alias, hostname) ==
    <<Directive("Host", <<alias>>), Directive("HostName", <<hostname>>)>>

\* /h/cfg: absent, unreadable, or one of these texts.
ConfigTexts ==
    { HostBlock("h1", "n1"),
      <<Directive("Include", <<"b">>)>> \o HostBlock("h1", "n1")
          \o HostBlock("h2", "n2") \o <<Directive("User", <<"u">>)>>,
      <<CommentLine, Directive("Include", <<"/", "h", "d", "c">>),
        Directive("Include", <<"~", "b">>)>> \o HostBlock("h3", "n3"),
      HostBlock("h4", "n4") \o <<Directive("Include", <<"b">>)>>,
      <<Directive("Include", <<"d", "*">>)>> \o HostBlock("h5", "n5"),
      <<Directive("Include", <<"cfg">>)>> \o HostBlock("h6", "n6"),
      <<Directive("Host", <<"*">>), Directive("User", <<"u">>), Directive("Host", <<"h7">>),
        Directive("Port", <<"22">>)>> \o HostBlock("h8", "n8"),
      <<Directive("host", <<"h9">>), Directive("hostname", <<"n9">>),
        Directive("Host", <<"h1">>), Directive("hostname", <<"n1">>)>> }

\* /h/b
TextsB ==
    { HostBlock("h1", "n1"),
      <<Directive("Include", <<"d", "c">>)>> \o HostBlock("b1", "n1")
          \o HostBlock("b2", "n2"),
      <<Directive("Include", <<"cfg">>)>> \o HostBlock("b3", "n3"),
      HostBlock("b4", "n4") \o <<Directive("Include", <<"d", "e">>)>>,
      HostBlock("b5", "n5")
          \o <<Directive("ProxyJump", <<"j1">>), Directive("ProxyJump", <<"j2">>),
               Directive("Alias", <<"x5">>)>> }

\* /h/d/c
TextsC ==
    { HostBlock("c1", "n1"),
      <<Directive("Include", <<"*">>)>> \o HostBlock("c2", "n2") }

\* /h/d/e
TextsE == { HostBlock("e1", "n1") \o HostBlock("e2", "n2") }

Missing == [kind |-> "missing"]
Unreadable == [kind |-> "unreadable"]
FilesOf(texts) == {[kind |-> "file", lines |-> t] : t \in texts}

FileSystems ==
    { (ConfigPath :> a) @@ (PathB :> b) @@ (PathC :> c) @@ (PathE :> e) :
        a \in {Missing, Unreadable} \cup FilesOf(ConfigTexts),
        b \in {Missing, Unreadable} \cup FilesOf(TextsB),
        c \in {Missing} \cup FilesOf(TextsC),
        e \in {Missing} \cup FilesOf(TextsE) }

GlobOrders ==
    { <<ConfigPath, PathB, PathC, PathE>>, <<PathE, PathC, PathB, ConfigPath>> }

\* Host resolution on the files of one file system.
InitConfig ==
    /\ CallIdle /\ ExecIdle /\ RestIdle
    /\ groups = NoGroups
    /\ groupsFile = [kind |-> "missing"]
    /\ groupsPath = Undefined
    /\ reload = [before |-> NoGroups, file |-> Empty]
    /\ fs \in FileSystems
    /\ globOrder \in GlobOrders
    /\ cfgPc = "idle"
    /\ stack = <<>>
    /\ cfgResult = <<>>

NextConfig ==
    \/ CallProcessIncludeDirectives
    \/ NextSection
    \/ NextIncludePath
    \/ ReturnHosts

SpecConfig == InitConfig /\ [][NextConfig]_vars

-----------------------------------------------------------------------------
(* Claims about host resolution *)

\* The lines of a file before its first Host or Match line.
RECURSIVE LinesBeforeSections(_)
LinesBeforeSections(lines) ==
    IF lines = <<>> \/ (IsDirective(Head(lines))
                        /\ Lower(Head(lines).param) \in {"host", "match"})
    THEN <<>>
    ELSE <<Head(lines)>> \o LinesBeforeSections(Tail(lines))

IsInclude(line) ==
    IsDirective(line) /\ line.param = "Include" /\ line.value # <<>>

Readable(path) == ExistsSync(path) /\ fs[path].kind = "file"

\* The Host records a file declares itself, in file order.
OwnHosts(path) ==
    IF Readable(path)
    THEN ExtractHostsFromConfig(SshConfigParse(fs[path].lines), path)
    ELSE <<>>

\* The depth-first, included-first list of a file: for each Include of the
\* file's top level, in order, the lists of the files it names, in order; then
\* the file's own hosts.
RECURSIVE IncludedFirst(_), IncludedFirstOfPaths(_), IncludedFirstOfLines(_, _)
IncludedFirst(path) ==
    IF Readable(path)
    THEN IncludedFirstOfLines(LinesBeforeSections(fs[path].lines), path)
            \o OwnHosts(path)
    ELSE <<>>

IncludedFirstOfPaths(paths) ==
    IF paths = <<>>
    THEN <<>>
    ELSE IncludedFirst(Head(paths)) \o IncludedFirstOfPaths(Tail(paths))

IncludedFirstOfLines(lines, base) ==
    IF lines = <<>>
    THEN <<>>
    ELSE (IF IsInclude(Head(lines))
          THEN IncludedFirstOfPaths(ExpandIncludePath(Head(lines).value, base))
          ELSE <<>>)
         \o IncludedFirstOfLines(Tail(lines), base)

\* C8: a resolution that returns yields the hosts in depth-first,
\* included-first order: for each file, the hosts of the files reached through
\* the Include directives of its top level, in directive order and
\* recursively, then the file's own Host records in file order.
C8_IncludedFirstOrder ==
    cfgPc = "returned" => cfgResult = IncludedFirst(ConfigPath)

Aliases(hosts) == [i \in DOMAIN hosts |-> hosts[i].alias]

\* C8's case: the root includes /h/d/c and then ~/b before its own host h3, and
\* /h/b includes d/c before its own hosts b1 and b2.
C8_Witness ==
    /\ cfgPc = "returned"
    /\ Aliases(cfgResult) = << <<"c1">>, <<"c1">>, <<"b1">>, <<"b2">>, <<"h3">> >>
    /\ cfgResult[2].configFile = PathC
    /\ cfgResult[3].configFile = PathB
    /\ cfgResult[5].configFile = ConfigPath

\* Whether `host` is one of `hosts`.
Among(host, hosts) == \E i \in DOMAIN hosts : hosts[i] = host

\* C9: wherever an Include line sits in the root file, before or after Host
\* blocks, the hosts declared in the files it names are in the resolved list.
C9_PlacementInsensitive ==
    (cfgPc = "returned" /\ Readable(ConfigPath)) =>
        \A i \in DOMAIN fs[ConfigPath].lines :
            LET line == fs[ConfigPath].lines[i]
            IN  IsInclude(line) =>
                   LET paths == ExpandIncludePath(line.value, ConfigPath)
                   IN  \A j \in DOMAIN paths :
                          \A k \in DOMAIN OwnHosts(paths[j]) :
                             Among(OwnHosts(paths[j])[k], cfgResult)

\* A file is being processed inside its own processing: the Include graph has
\* a cycle through it.
CycleOnStack ==
    \E i, j \in DOMAIN stack : i < j /\ stack[i].path = stack[j].path

\* C10: the resolution of a configuration whose Include graph has a cycle
\* comes to an end and returns a host list: its recursion does not go on
\* beyond every depth.
C10_CycleTolerant == CycleOnStack => cfgPc # "exhausted"

\* The recursion is followed deep enough: it only goes beyond MaxDepth when a
\* file includes itself, directly or through other files.
DepthOnlyExceededByCycle == cfgPc = "exhausted" => CycleOnStack

-----------------------------------------------------------------------------
(* parseKnownHosts (338-368), getAllKnownHosts (370-399),                    *)
(* getHostInfo (502-505), listHostGroups (419-423)                           *)

\* this.knownHostsPath
KnownHostsPath == <<"/", "h", "kh">>

\* s.split(sep)[0]: what precedes the first `sep` of s.
RECURSIVE SplitFirst(_, _)
SplitFirst(s, sep) ==
    IF s = <<>> \/ Head(s) = sep
    THEN <<>>
    ELSE <<Head(s)>> \o SplitFirst(Tail(s), sep)

\* line.trim() !== '' && !line.startsWith('#')
KeepLine(line) == Trim(line) # <<>> /\ Head(line) # "#"

\* line.split(' ')[0].split(',')[0]
HostOfLine(line) == SplitFirst(SplitFirst(line, " "), ",")

\* The filter, map, filter chain of parseKnownHosts over the lines of the file.
RECURSIVE KnownHostsOf(_)
KnownHostsOf(lines) ==
    IF lines = <<>>
    THEN <<>>
    ELSE LET line == Head(lines)
             rest == KnownHostsOf(Tail(lines))
         IN  IF KeepLine(line) /\ HostOfLine(line) # <<>>
             THEN <<HostOfLine(line)>> \o rest
             ELSE rest

\* parseKnownHosts(): a missing file, and a file that cannot be read, give [].
ParseKnownHosts(files) ==
    IF KnownHostsPath \in DOMAIN files /\ files[KnownHostsPath].kind = "file"
    THEN KnownHostsOf(files[KnownHostsPath].lines)
    ELSE <<>>

\* configHosts.some(host => host.hostname === hostname || host.alias === hostname)
InConfigByHostname(configHosts, hostname) ==
    \E i \in DOMAIN configHosts : configHosts[i].hostname = hostname

InConfig(configHosts, hostname) ==
    \E i \in DOMAIN configHosts :
        configHosts[i].hostname = hostname \/ configHosts[i].alias = hostname

\* {hostname: hostname, source: 'known_hosts'}
KnownHostRecord(hostname) ==
    ("hostname" :> hostname) @@ ("source" :> <<"known_hosts">>)

\* Faulty: a record that has a source already keeps it.
MarkConfigHostUnlessTagged(host) ==
    IF "source" \in DOMAIN host THEN host
    ELSE SetProperty(host, "source", <<"ssh_config">>)

\* host.source = 'ssh_config'
MarkConfigHost(host) == SetProperty(host, "source", <<"ssh_config">>)

\* Faulty: a known_hosts name is only looked up among the hostnames.
GetAllKnownHostsByHostname(configHosts, knownHostnames) ==
    [i \in DOMAIN configHosts |-> MarkConfigHost(configHosts[i])]
    \o LET kept == SelectSeq(knownHostnames,
                             LAMBDA h : ~InConfigByHostname(configHosts, h))
       IN  [i \in DOMAIN kept |-> KnownHostRecord(kept[i])]

\* allHosts of getAllKnownHosts, from the config hosts and the known_hosts
\* names.
GetAllKnownHosts(configHosts, knownHostnames) ==
    [i \in DOMAIN configHosts |-> MarkConfigHost(configHosts[i])]
    \o LET kept == SelectSeq(knownHostnames,
                             LAMBDA h : ~InConfig(configHosts, h))
       IN  [i \in DOMAIN kept |-> KnownHostRecord(kept[i])]

\* host.alias === hostAlias || host.hostname === hostAlias
HostMatches(host, hostAlias) ==
    IsString(hostAlias)
    /\ (host.alias = hostAlias.str \/ host.hostname = hostAlias.str)

\* Faulty: the last matching record is taken.
GetHostInfoLast(hosts, hostAlias) ==
    LET found == SelectSeq(hosts, LAMBDA host : HostMatches(host, hostAlias))
    IN  IF found = <<>> THEN Null ELSE [host |-> found[Len(found)]]

\* hosts.find(...) || null
GetHostInfo(hosts, hostAlias) ==
    LET found == SelectSeq(hosts, LAMBDA host : HostMatches(host, hostAlias))
    IN  IF found = <<>> THEN Null ELSE [host |-> Head(found)]

\* The call that is complete when the next one starts or the files change.
Archive ==
    IF pc = "done" THEN [op |-> op, args |-> args, ret |-> ret] ELSE last

\* listKnownHosts(): getAllKnownHosts starts resolving the configuration.
CallListKnownHosts ==
    /\ pc \in {"idle", "done"}
    /\ op' = "listKnownHosts"
    /\ args' = NoArgs
    /\ ret' = NoRet
    /\ pc' = "resolving"
    /\ last' = Archive
    /\ Becomes(Invoke(ConfigPath, <<>>))
    /\ UNCHANGED <<execCalls, execVars, groupVars, fs, globOrder, seqResults,
                   groupOps, loaded, ssh, sshOps>>

\* Faulty: a configuration file or a known_hosts file that cannot be read
\* leaves the list empty.
GetAllKnownHostsOrNothing ==
    /\ op = "listKnownHosts"
    /\ pc = "resolving"
    /\ cfgPc = "returned"
    /\ ret' = [hosts |-> IF fs[ConfigPath].kind = "file"
                            /\ fs[KnownHostsPath].kind = "file"
                         THEN GetAllKnownHosts(cfgResult, ParseKnownHosts(fs))
                         ELSE <<>>]
    /\ pc' = "done"
    /\ UNCHANGED <<op, args, execCalls, execVars, groupVars, cfgVars, restVars>>

\* getAllKnownHosts resumes with the config hosts, reads known_hosts and
\* merges.
GetAllKnownHostsResumes ==
    /\ op = "listKnownHosts"
    /\ pc = "resolving"
    /\ cfgPc = "returned"
    /\ ret' = [hosts |-> GetAllKnownHosts(cfgResult, ParseKnownHosts(fs))]
    /\ pc' = "done"
    /\ UNCHANGED <<op, args, execCalls, execVars, groupVars, cfgVars, restVars>>

\* getHostInfo(hostAlias) starts resolving the configuration.
CallGetHostInfo ==
    /\ pc \in {"idle", "done"}
    /\ op' = "getHostInfo"
    /\ args' \in {[hostAlias |-> a] :
                    a \in {Str(<<"h1">>), Str(<<"n1">>), Str(<<"k1">>), Undefined}}
    /\ ret' = NoRet
    /\ pc' = "resolving"
    /\ last' = Archive
    /\ Becomes(Invoke(ConfigPath, <<>>))
    /\ UNCHANGED <<execCalls, execVars, groupVars, fs, globOrder, seqResults,
                   groupOps, loaded, ssh, sshOps>>

\* Faulty: the result of the call before is kept for the same host.
GetHostInfoCached ==
    /\ op = "getHostInfo"
    /\ pc = "resolving"
    /\ cfgPc = "returned"
    /\ ret' = IF last # NoCall /\ last.op = op /\ last.args = args
              THEN last.ret
              ELSE GetHostInfo(cfgResult, args.hostAlias)
    /\ pc' = "done"
    /\ UNCHANGED <<op, args, execCalls, execVars, groupVars, cfgVars, restVars>>

\* getHostInfo resumes with the config hosts.
GetHostInfoResumes ==
    /\ op = "getHostInfo"
    /\ pc = "resolving"
    /\ cfgPc = "returned"
    /\ ret' = GetHostInfo(cfgResult, args.hostAlias)
    /\ pc' = "done"
    /\ UNCHANGED <<op, args, execCalls, execVars, groupVars, cfgVars, restVars>>

\* listHostGroups(): reloadGroups starts reading the group file, or, with no
\* groups path, empties the map.
CallListHostGroups ==
    /\ pc \in {"idle", "done"}
    /\ op' = "listHostGroups"
    /\ args' = NoArgs
    /\ ret' = NoRet
    /\ last' = Archive
    /\ IF groupsPath = Undefined
       THEN groups' = NoGroups /\ pc' = "reloaded"
       ELSE groups' = groups /\ pc' = "reloading"
    /\ reload' = [before |-> groups, file |-> Empty]
    /\ UNCHANGED <<execCalls, execVars, groupsFile, groupsPath, cfgVars, seqResults,
                   groupOps, loaded, ssh, sshOps>>

\* listHostGroups resumes after `await this.reloadGroups()`.
ListHostGroupsResumes ==
    /\ op = "listHostGroups"
    /\ pc = "reloaded"
    /\ ret' = [groups |-> groups]
    /\ pc' = "done"
    /\ UNCHANGED <<op, args, execCalls, execVars, groupVars, cfgVars, restVars>>

\* known_hosts: absent, unreadable, or one of these texts.
KnownHostsTexts ==
    { << <<"n1", " ", "t", " ", "A">>, <<"h2", " ", "t", " ", "A">>,
         <<"k1", ",", "k2", " ", "t", " ", "A">>, <<"#", "c">>, <<>>,
         <<"k1", " ", "u", " ", "B">> >>,
      << <<" ", "k3">>, <<"k3", " ", "t", " ", "A">>, <<" ">>,
         <<",", "k4", " ", "t", " ", "A">> >> }

\* The files of a client whose hosts are listed and looked up.
RegistryFileSystems ==
    { (ConfigPath :> a) @@ (PathB :> b) @@ (PathC :> c) @@ (PathE :> Missing)
      @@ (KnownHostsPath :> k) :
        a \in {Missing, Unreadable}
              \cup FilesOf({ HostBlock("h1", "n1"),
                             <<Directive("Include", <<"b">>)>> \o HostBlock("h1", "n1")
                                 \o HostBlock("h2", "n2")
                                 \o <<Directive("User", <<"u">>)>> }),
        b \in FilesOf({ <<Directive("Include", <<"d", "c">>)>>
                            \o HostBlock("b1", "n1") \o HostBlock("b2", "n2") }),
        c \in FilesOf({ HostBlock("c1", "n1")
                            \o <<Directive("Source", <<"known_hosts">>)>> }),
        k \in {Missing, Unreadable} \cup FilesOf(KnownHostsTexts) }

RegistryGroupFiles ==
    { [kind |-> "missing"],
      [kind |-> "json",
       value |-> Obj(<< <<<<"w">>, Arr(<<Str(<<"a">>), Str(<<"b">>)>>)>>,
                        <<<<"e">>, Arr(<<>>)>>,
                        <<<<"x">>, Str(<<"a">>)>> >>)] }

\* Somebody edits the files between two calls.
EditFiles ==
    /\ pc \in {"idle", "done"}
    /\ fs' \in RegistryFileSystems
    /\ groupsFile' \in RegistryGroupFiles
    /\ <<fs', groupsFile'>> # <<fs, groupsFile>>
    /\ last' = Archive
    /\ op' = "none"
    /\ pc' = "idle"
    /\ args' = NoArgs
    /\ ret' = NoRet
    /\ UNCHANGED <<execCalls, execVars, groups, groupsPath, reload, globOrder,
                   cfgPc, stack, cfgResult, seqResults,
                   groupOps, loaded, ssh, sshOps>>

\* The host and group listings of a client constructed by main().
InitRegistry ==
    /\ CallIdle /\ ExecIdle /\ RestIdle
    /\ groupsFile \in RegistryGroupFiles
    /\ groupsPath = Str(<<"g">>)
    /\ groups = LoadGroupsFile(groupsFile)
    /\ reload = [before |-> NoGroups, file |-> Empty]
    /\ fs \in RegistryFileSystems
    /\ globOrder = <<ConfigPath, PathB, PathC, PathE>>
    /\ cfgPc = "idle"
    /\ stack = <<>>
    /\ cfgResult = <<>>

NextRegistry ==
    \/ CallListKnownHosts
    \/ GetAllKnownHostsResumes
    \/ CallGetHostInfo
    \/ GetHostInfoResumes
    \/ CallListHostGroups
    \/ ReloadGroupsSettles
    \/ ListHostGroupsResumes
    \/ NextSection
    \/ NextIncludePath
    \/ ReturnHosts
    \/ EditFiles

SpecRegistry == InitRegistry /\ [][NextRegistry]_vars

-----------------------------------------------------------------------------
(* Claims about the host and group listings *)

ListReturned == op = "listKnownHosts" /\ pc = "done"

\* The names parseKnownHosts reads from the known_hosts file as it is.
KnownNames == ParseKnownHosts(fs)

\* No config host has the name as its hostname or as its alias.
Unmatched(name) ==
    \A i \in DOMAIN cfgResult :
        cfgResult[i].hostname # name /\ cfgResult[i].alias # name

\* C11: getAllKnownHosts returns the config hosts first, in the order of their
\* resolution, then the known_hosts names that are no config host's hostname
\* and no config host's alias, in file order; its length is the number of
\* config hosts plus the number of unmatched known_hosts entries.
C11_ConfigFirstThenUnmatched ==
    ListReturned =>
        LET all == ret.hosts
            n == Len(cfgResult)
            unmatched == SelectSeq(KnownNames, Unmatched)
        IN  /\ Len(all) =
                  n + Cardinality({k \in DOMAIN KnownNames : Unmatched(KnownNames[k])})
            /\ \A i \in 1 .. n :
                  /\ all[i].alias = cfgResult[i].alias
                  /\ all[i].hostname = cfgResult[i].hostname
                  /\ all[i].configFile = cfgResult[i].configFile
                  /\ all[i].source = <<"ssh_config">>
            /\ \A j \in 1 .. Len(unmatched) :
                  /\ all[n + j].hostname = unmatched[j]
                  /\ all[n + j].source = <<"known_hosts">>
                  /\ "alias" \notin DOMAIN all[n + j]

\* C11's case: five config hosts through two includes, and a known_hosts file
\* naming a config hostname (n1), a config alias (h2) and a host of its own.
C11_Witness ==
    /\ ListReturned
    /\ Aliases(cfgResult) = << <<"c1">>, <<"b1">>, <<"b2">>, <<"h1">>, <<"h2">> >>
    /\ KnownNames = << <<"n1">>, <<"h2">>, <<"k1">>, <<"k1">> >>
    /\ Len(ret.hosts) = 7
    /\ ret.hosts[6].hostname = <<"k1">>

\* C12: the list returned by listKnownHosts holds no two records from
\* known_hosts with the same hostname.
C12_KnownHostsDeduplicated ==
    ListReturned =>
        \A i, j \in DOMAIN ret.hosts :
            (/\ i < j
             /\ ret.hosts[i].source = <<"known_hosts">>
             /\ ret.hosts[j].source = <<"known_hosts">>)
            => ret.hosts[i].hostname # ret.hosts[j].hostname

InfoReturned == op = "getHostInfo" /\ pc = "done"

\* The config hosts whose alias or hostname is the string x.
Matching(x) ==
    {i \in DOMAIN cfgResult :
        IsString(x) /\ (cfgResult[i].alias = x.str \/ cfgResult[i].hostname = x.str)}

\* C13: getHostInfo(x) returns the first config host, in resolution order,
\* whose alias or hostname is x, and null when there is none, also when
\* known_hosts names x.
C13_FirstConfigMatch ==
    InfoReturned =>
        LET x == args.hostAlias
        IN  IF Matching(x) = {}
            THEN ret = Null
            ELSE \E i \in Matching(x) :
                    /\ \A k \in Matching(x) : i <= k
                    /\ ret = [host |-> cfgResult[i]]

\* C13's case: three config hosts have the hostname n1, which known_hosts
\* names too; the first of them, from the innermost include, is returned.
C13_Witness ==
    /\ InfoReturned
    /\ args.hostAlias = Str(<<"n1">>)
    /\ Matching(args.hostAlias) = {1, 2, 4}
    /\ \E k \in DOMAIN KnownNames : KnownNames[k] = <<"n1">>
    /\ ret = [host |-> cfgResult[1]]
    /\ ret.host.alias = <<"c1">>

\* C18: the result of listKnownHosts, getHostInfo and listHostGroups is the
\* one the files give as they are at the call, whatever earlier calls
\* returned.
C18_RebuiltEveryCall ==
    pc = "done" =>
        CASE op = "listKnownHosts" ->
                ret = [hosts |-> GetAllKnownHosts(IncludedFirst(ConfigPath),
                                                  ParseKnownHosts(fs))]
          [] op = "getHostInfo" ->
                ret = GetHostInfo(IncludedFirst(ConfigPath), args.hostAlias)
          [] op = "listHostGroups" ->
                ret = [groups |-> LoadGroupsFile(groupsFile)]
          [] OTHER -> TRUE

\* C18's case: the same call was made before, the files were edited, and the
\* call now returns something else.
C18_Witness ==
    /\ pc = "done"
    /\ op = "getHostInfo"
    /\ last # NoCall
    /\ last.op = op
    /\ last.args = args
    /\ last.ret # ret
    /\ last.ret # Null
    /\ ret # Null

-----------------------------------------------------------------------------
(* Claims about the group file *)

\* The file is missing, is not JSON, or is JSON whose top level is no object.
NotAJsonObject(file) == file.kind # "json" \/ ~IsObject(file.value)

\* C14: when the group file is missing, is not parseable JSON or has a top
\* level that is not a JSON object, the map loaded from it is empty.
C14_NonObjectYieldsEmptyMap ==
    (/\ pc \in {"reloaded", "fanout", "done"}
     /\ reload.file # Empty
     /\ NotAJsonObject(reload.file))
    => groups = NoGroups

-----------------------------------------------------------------------------
(* runCommandBatch (652-682) *)

\* The longest list of commands handed to runCommandBatch.
MaxCommands == 3

\* The lists of at most n commands.
RECURSIVE CommandLists(_)
CommandLists(n) ==
    IF n = 0
    THEN {<<>>}
    ELSE CommandLists(n - 1)
         \cup {Append(l, c) : l \in {m \in CommandLists(n - 1) : Len(m) = n - 1},
                              c \in {Str(<<"l", "s">>), Str(<<"i", "d">>)}}

\* Faulty: the loop is left at the first command that fails.
NextCommandUntilFailure(res, commands) ==
    IF Len(res) < Len(commands)
       /\ (res = <<>> \/ res[Len(res)].code = Num(0))
    THEN Len(res) + 1
    ELSE 0

\* `for (const command of commands)`: the index of the command the loop takes
\* when `res` holds the results so far, 0 when the loop is over.
NextCommand(res, commands) ==
    IF Len(res) < Len(commands) THEN Len(res) + 1 ELSE 0

\* `success` after the loop: no result had `result.code !== 0`.
NoCodeNonZero(res) == \A k \in DOMAIN res : res[k].code = Num(0)

\* runCommandBatch, from its entry or from the completion of a command, with
\* the results `res`, to its next await or to its return.
RunCommandBatchLoop(res, hostAlias, commands) ==
    LET k == NextCommand(res, commands)
    IN  /\ seqResults' = res
        /\ IF k = 0
           THEN /\ pc' = "done"
                /\ ret' = [results |-> res, success |-> NoCodeNonZero(res)]
                /\ execCalls' = execCalls
           ELSE /\ pc' = "running"
                /\ ret' = ret
                /\ execCalls' = Append(execCalls, ExecOptions(hostAlias, commands[k]))

\* runCommandBatch(hostAlias, commands) is called.
CallRunCommandBatch ==
    /\ pc = "idle"
    /\ \E commands \in CommandLists(MaxCommands) :
          /\ op' = "runCommandBatch"
          /\ args' = [hostAlias |-> Str(<<"a">>), commands |-> commands]
          /\ RunCommandBatchLoop(<<>>, Str(<<"a">>), commands)
    /\ UNCHANGED <<execVars, groupVars, cfgVars, last, groupOps, loaded, ssh, sshOps>>

\* The execFile of the command in flight settles; runRemoteCommand returns and
\* the loop goes on.
CommandSettles ==
    /\ op = "runCommandBatch"
    /\ pc = "running"
    /\ \E outcome \in ExecOutcomes :
          /\ outcomes' = Append(outcomes, outcome)
          /\ RunCommandBatchLoop(Append(seqResults, RunRemoteCommand(outcome)),
                                 args.hostAlias, args.commands)
    /\ UNCHANGED <<op, args, items, limit, nextIndex, results, runners, started,
                   returned, finished, execState, groupVars, cfgVars, last,
                   groupOps, loaded, ssh, sshOps>>

\* runCommandBatch on a client.
InitCommands == InitExec

NextCommands ==
    \/ CallRunCommandBatch
    \/ CommandSettles

SpecCommands == InitCommands /\ [][NextCommands]_vars

\* C15: runCommandBatch starts the commands in input order, each one only
\* when the one before has completed; it goes on after a failure, and returns
\* one result per command, in input order, with success true iff every result
\* has code 0.
C15_OneAfterAnother ==
    op = "runCommandBatch" =>
        /\ Len(execCalls) <= Len(seqResults) + 1
        /\ \A k \in DOMAIN execCalls :
              /\ execCalls[k].command = args.commands[k]
              /\ execCalls[k].host = args.hostAlias
        /\ pc = "done" =>
              /\ Len(ret.results) = Len(args.commands)
              /\ Len(execCalls) = Len(args.commands)
              /\ \A k \in DOMAIN ret.results :
                    (ret.results[k].code = Num(0)) <=> outcomes[k].ok
              /\ ret.success <=> \A k \in DOMAIN ret.results :
                                    ret.results[k].code = Num(0)

\* C15's case: three commands, the second of which fails; the third is run and
\* succeeds, and the call reports three results and no success.
C15_Witness ==
    /\ op = "runCommandBatch"
    /\ pc = "done"
    /\ Len(args.commands) = 3
    /\ [k \in 1 .. 3 |-> outcomes[k].ok] = <<TRUE, FALSE, TRUE>>
    /\ Len(ret.results) = 3
    /\ ret.results[2].code # Num(0)
    /\ ret.results[3].code = Num(0)
    /\ ret.success = FALSE

-----------------------------------------------------------------------------
(* The request handlers of main(): list tools (711-974), call tool (977-1135) *)

\* inputSchema: { type: "object", properties: {...}, required: [...] }, with
\* the names of the properties in place of their descriptions.
InputSchema(properties, required) ==
    [type |-> "object", properties |-> properties, required |-> required]

Tool(name, properties, required) ==
    [name |-> name, inputSchema |-> InputSchema(properties, required)]

\* The `tools` array of the list-tools response.
Tools ==
    << Tool("listKnownHosts", <<>>, <<>>),
       Tool("runRemoteCommand", <<"hostAlias", "command">>, <<"hostAlias", "command">>),
       Tool("getHostInfo", <<"hostAlias">>, <<"hostAlias">>),
       Tool("checkConnectivity", <<"hostAlias">>, <<"hostAlias">>),
       Tool("uploadFile", <<"hostAlias", "localPath", "remotePath">>,
            <<"hostAlias", "localPath", "remotePath">>),
       Tool("downloadFile", <<"hostAlias", "remotePath", "localPath">>,
            <<"hostAlias", "remotePath", "localPath">>),
       Tool("runCommandBatch", <<"hostAlias", "commands">>, <<"hostAlias", "commands">>),
       Tool("runBatchCommand", <<"hosts", "command", "concurrency", "timeoutMs">>,
            <<"hosts", "command">>),
       Tool("listHostGroups", <<>>, <<>>),
       Tool("runGroupCommand", <<"group", "command", "concurrency", "timeoutMs">>,
            <<"group", "command">>),
       Tool("syncFile",
            <<"localPath", "remotePath", "hosts", "useRsync", "delete",
              "concurrency", "timeoutMs">>,
            <<"localPath", "remotePath", "hosts">>),
       Tool("syncFileToGroup",
            <<"localPath", "remotePath", "group", "useRsync", "delete",
              "concurrency", "timeoutMs">>,
            <<"localPath", "remotePath", "group">>) >>

\* The names the switch of the call-tool handler has a case for.
SwitchCases ==
    { "listKnownHosts", "runRemoteCommand", "getHostInfo", "checkConnectivity",
      "uploadFile", "downloadFile", "runCommandBatch", "runBatchCommand",
      "listHostGroups", "runGroupCommand", "syncFile", "syncFileToGroup" }

\* The tool names of requests: those of the switch, and an unknown one.
RequestNames == SwitchCases \cup {"nope"}

\* request.params.arguments: absent, null, and objects.
RequestArguments ==
    { Undefined, Null, Obj(<<>>),
      Obj(<< <<"hostAlias", Str(<<"a">>)>> >>),
      Obj(<< <<"group", Str(<<"w">>)>>, <<"command", Str(<<"l", "s">>)>> >>) }

\* How the client method awaited by a case of the switch settles.
MethodOutcomes ==
    { [ok |-> TRUE, value |-> [result |-> "value"]],
      [ok |-> FALSE, message |-> "failed"] }

\* { content: [{ type: "text", text: JSON.stringify(value) }] }
Content(value) == [content |-> <<[type |-> "text", text |-> [json |-> value]]>>]

\* An Error thrown out of the handler.
Raised(text, name) == [raised |-> [text |-> text, name |-> name]]

\* !args && name !== "listKnownHosts"
NoArgumentsGuard(name, arguments) == Falsy(arguments) /\ name # "listKnownHosts"

\* The list-tools handler answers a request.
ListToolsRequest ==
    /\ pc \in {"idle", "done"}
    /\ op' = "listTools"
    /\ args' = NoArgs
    /\ ret' = [tools |-> Tools]
    /\ pc' = "done"
    /\ UNCHANGED <<execCalls, execVars, groupVars, cfgVars, restVars>>

\* The call-tool handler takes a request: it throws for a request without
\* arguments, answers an unknown tool from its catch block, and else awaits
\* the client method of the tool.
CallToolRequest ==
    /\ pc \in {"idle", "done"}
    /\ \E name \in RequestNames, arguments \in RequestArguments :
          /\ op' = "callTool"
          /\ args' = [name |-> name, arguments |-> arguments]
          /\ IF NoArgumentsGuard(name, arguments)
             THEN /\ pc' = "done"
                  /\ ret' = Raised("No arguments provided for tool: ", name)
             ELSE IF name \notin SwitchCases
             THEN /\ pc' = "done"
                  /\ ret' = Content([error |-> [text |-> "Unknown tool: ", name |-> name]])
             ELSE /\ pc' = "awaiting"
                  /\ ret' = NoRet
    /\ UNCHANGED <<execCalls, execVars, groupVars, cfgVars, restVars>>

\* The client method settles: its value is returned as content, and what it
\* throws is caught and returned as content.
ClientMethodSettles ==
    /\ op = "callTool"
    /\ pc = "awaiting"
    /\ \E outcome \in MethodOutcomes :
          ret' = IF outcome.ok
                 THEN Content(outcome.value)
                 ELSE Content([error |-> outcome.message])
    /\ pc' = "done"
    /\ UNCHANGED <<op, args, execCalls, execVars, groupVars, cfgVars, restVars>>

\* The server after main() has set its handlers.
InitServer == InitExec

NextServer ==
    \/ ListToolsRequest
    \/ CallToolRequest
    \/ ClientMethodSettles

SpecServer == InitServer /\ [][NextServer]_vars

\* C16: whatever the tool name and the arguments, also for a request without
\* arguments, the call-tool handler returns a content result and does not
\* raise; listKnownHosts and listHostGroups, which require no argument,
\* answer a request without arguments.
C16_AlwaysContentResult ==
    (op = "callTool" /\ pc = "done") =>
        /\ "content" \in DOMAIN ret
        /\ (args.name \in {"listKnownHosts", "listHostGroups"}
            /\ args.arguments = Undefined)
           => "error" \notin DOMAIN ret.content[1].text.json

\* C17: every input schema of the list-tools response, of which there are 12,
\* sets additionalProperties to false.
C17_AdditionalPropertiesFalse ==
    (op = "listTools" /\ pc = "done") =>
        /\ Len(ret.tools) = 12
        /\ \A i \in DOMAIN ret.tools :
              /\ "additionalProperties" \in DOMAIN ret.tools[i].inputSchema
              /\ ret.tools[i].inputSchema.additionalProperties = FALSE

-----------------------------------------------------------------------------
(* syncFile (558-634) *)

\* options.concurrency's default in syncFile
SyncDefaultConcurrency == 5
\* options.timeoutMs's default in syncFile
SyncDefaultTimeoutMs == 120000

\* !path || typeof path !== 'string'
NoPath(path) == Falsy(path) \/ ~IsString(path)

\* Number.isFinite(options.concurrency) ? options.concurrency : 5
SyncConcurrency(options) ==
    IF IsFinite(options.concurrency) THEN options.concurrency
    ELSE Num(SyncDefaultConcurrency)

\* Number.isFinite(options.timeoutMs) ? options.timeoutMs : 120000
SyncTimeoutMs(options) ==
    IF IsFinite(options.timeoutMs) THEN options.timeoutMs
    ELSE Num(SyncDefaultTimeoutMs)

\* Faulty: useRsync is taken as a truthy value, where the code compares it
\* with true.
CopyOptionsIfTruthy(hostAlias, localPath, remotePath, options) ==
    IF ~Falsy(options.useRsync)
    THEN [file |-> "rsync",
          flags |-> IF Falsy(options.delete) THEN <<"-avz", "--progress">>
                    ELSE <<"-avz", "--progress", "--delete">>,
          localPath |-> localPath, host |-> hostAlias, remotePath |-> remotePath,
          timeout |-> SyncTimeoutMs(options)]
    ELSE [file |-> "scp", flags |-> <<"-r">>,
          localPath |-> localPath, host |-> hostAlias, remotePath |-> remotePath,
          timeout |-> SyncTimeoutMs(options)]

\* The execFile call of the worker of syncFile for one host: rsync with
\* -avz --progress [--delete], or scp -r, from localPath to host:remotePath.
CopyOptions(hostAlias, localPath, remotePath, options) ==
    IF options.useRsync = Bool(TRUE)
    THEN [file |-> "rsync",
          flags |-> IF Falsy(options.delete) THEN <<"-avz", "--progress">>
                    ELSE <<"-avz", "--progress", "--delete">>,
          localPath |-> localPath, host |-> hostAlias, remotePath |-> remotePath,
          timeout |-> SyncTimeoutMs(options)]
    ELSE [file |-> "scp", flags |-> <<"-r">>,
          localPath |-> localPath, host |-> hostAlias, remotePath |-> remotePath,
          timeout |-> SyncTimeoutMs(options)]

\* The invocations of the primitive made by the workers started for the
\* indices `invoked` of `hostList`.
CopyInvocations(invoked, hostList, localPath, remotePath, options) ==
    [j \in 1 .. Len(invoked) |->
        CopyOptions(hostList[invoked[j] + 1], localPath, remotePath, options)]

\* Faulty: the worker of syncFile reports a success whatever the outcome.
SyncWorkerValueAlwaysOk(hostAlias, outcome) ==
    [host |-> hostAlias, success |-> TRUE,
     stdout |-> Str(<<>>), stderr |-> Str(<<>>)]

\* What the worker of syncFile returns when its execFile settles.
SyncWorkerValue(hostAlias, outcome) ==
    IF outcome.ok
    THEN [host |-> hostAlias, success |-> TRUE,
          stdout |-> OrElse(outcome.stdout, Str(<<>>)),
          stderr |-> OrElse(outcome.stderr, Str(<<>>))]
    ELSE [host |-> hostAlias, success |-> FALSE,
          error |-> outcome.error.message,
          stdout |-> OrElse(outcome.error.stdout, Str(<<>>)),
          stderr |-> OrElse(outcome.error.stderr, Str(<<>>))]

\* results.filter(r => r && r.success).length
SuccessCount(res) ==
    Cardinality({i \in DOMAIN res : res[i] # Empty /\ res[i].success})

\* results.length, where the code counts the results that did not succeed
FailCountOfAll(res) == Cardinality(DOMAIN res)

\* results.filter(r => r && !r.success).length
FailCount(res) ==
    Cardinality({i \in DOMAIN res : res[i] # Empty /\ ~res[i].success})

\* syncFile(localPath, remotePath, hosts, options), from its entry to its
\* first await or to its early return.
EnterSyncFile(localPath, remotePath, hosts, options) ==
    LET hostList == UniqueStrings(HostsOrEmpty(hosts))
        st == FanoutStart(hostList, SyncConcurrency(options))
    IN  IF hostList = <<>>
        THEN /\ pc' = "done"
             /\ ret' = Failure(Message("No hosts provided"))
             /\ UNCHANGED <<execCalls, execVars>>
        ELSE IF NoPath(localPath)
        THEN /\ pc' = "done"
             /\ ret' = Failure(Message("No local path provided"))
             /\ UNCHANGED <<execCalls, execVars>>
        ELSE IF NoPath(remotePath)
        THEN /\ pc' = "done"
             /\ ret' = Failure(Message("No remote path provided"))
             /\ UNCHANGED <<execCalls, execVars>>
        ELSE /\ pc' = "fanout"
             /\ ret' = ret
             /\ EnterRunWithConcurrency(hostList, SyncConcurrency(options), st)
             /\ execCalls' = execCalls \o
                   CopyInvocations(st.invoked, hostList, localPath, remotePath,
                                   options)

\* The local and remote paths handed to syncFile: both given, one of them
\* whitespace only, empty, absent, or not a string.
PathArgs ==
    { <<Str(<<"/", "f">>), Str(<<"/", "r">>)>>,
      <<Str(<<" ">>), Str(<<"/", "r">>)>>,
      <<Str(<<"/", "f">>), Str(<<" ", " ">>)>>,
      <<Str(<<>>), Str(<<"/", "r">>)>>,
      <<Str(<<"/", "f">>), Undefined>>,
      <<Num(42), Str(<<"/", "r">>)>> }

SyncOptionArgs ==
    { [useRsync |-> Undefined, delete |-> Undefined, concurrency |-> Undefined,
       timeoutMs |-> Undefined],
      [useRsync |-> Bool(TRUE), delete |-> Bool(TRUE), concurrency |-> Num(2),
       timeoutMs |-> Num(5000)] }

\* syncFile(localPath, remotePath, hosts, options) is called.
CallSyncFile ==
    /\ pc = "idle"
    /\ \E paths \in PathArgs, hosts \in HostArgs, options \in SyncOptionArgs :
          /\ op' = "syncFile"
          /\ args' = [localPath |-> paths[1], remotePath |-> paths[2],
                      hosts |-> hosts, options |-> options]
          /\ EnterSyncFile(paths[1], paths[2], hosts, options)
    /\ UNCHANGED <<groupVars, cfgVars, restVars>>

\* The execFile awaited by runner r's worker settles; the worker returns, and
\* the runner goes round its loop, which may copy to the next host.
CopySettles ==
    /\ op \in {"syncFile", "syncFileToGroup"}
    /\ pc = "fanout"
    /\ \E r \in DOMAIN runners, outcome \in ExecOutcomes :
          /\ runners[r].state = "awaiting"
          /\ outcomes' = [outcomes EXCEPT ![runners[r].current] = outcome]
          /\ WorkerReturns(r, SyncWorkerValue(items[runners[r].current + 1], outcome),
                           Resumed(r))
          /\ execCalls' = execCalls \o
                CopyInvocations(Resumed(r).invoked, items, args.localPath,
                                args.remotePath, args.options)
    /\ UNCHANGED <<op, pc, args, ret, groupVars, cfgVars, restVars>>

\* runWithConcurrency returns to syncFile, which returns.
SyncFileReturns ==
    /\ op \in {"syncFile", "syncFileToGroup"}
    /\ pc = "fanout"
    /\ execState = "running"
    /\ AllRunnersDone
    /\ execState' = "returned"
    /\ pc' = "done"
    /\ ret' = [results |-> ArrayOf(results),
               success |-> \A i \in DOMAIN results :
                              results[i] # Empty /\ results[i].success,
               successCount |-> SuccessCount(results),
               failCount |-> FailCount(results)]
    /\ UNCHANGED <<op, args, execCalls, items, limit, nextIndex, results,
                   runners, started, returned, outcomes, finished, groupVars,
                   cfgVars, restVars>>

\* runBatchCommand and syncFile on a client.
InitSync == InitExec

NextSync ==
    \/ CallRunBatchCommand
    \/ ExecFileSettles
    \/ RunBatchCommandReturns
    \/ CallSyncFile
    \/ CopySettles
    \/ SyncFileReturns

SpecSync == InitSync /\ [][NextSync]_vars

\* Entry i of the hosts array is a string with a non-blank character, and no
\* entry before it is the same string up to surrounding blanks.
FirstSeen(hosts, i) ==
    /\ IsString(hosts[i])
    /\ ~IsBlank(hosts[i].str)
    /\ \A j \in 1 .. i - 1 :
          IsString(hosts[j]) => Trim(hosts[j].str) # Trim(hosts[i].str)

\* The hosts a call is to act on: the first-seen entries, trimmed, in order.
RemainingHosts(hosts) ==
    IF IsArray(hosts)
    THEN LET idx == SelectSeq([i \in DOMAIN hosts.arr |-> i],
                              LAMBDA i : FirstSeen(hosts.arr, i))
         IN  [k \in DOMAIN idx |-> Str(Trim(hosts.arr[idx[k]].str))]
    ELSE <<>>

\* C19: a runBatchCommand or syncFile call that fans out acts on the hosts
\* array after trimming, dropping blank and non-string entries and removing
\* duplicates in first-seen order: the primitive is invoked for these hosts
\* only, and the results array has one entry per such host, results[i].host
\* being the i-th of them.
C19_ResultsFollowDedupedHosts ==
    (op \in {"runBatchCommand", "syncFile"} /\ pc \in {"fanout", "done"}) =>
        LET hostList == RemainingHosts(args.hosts)
        IN  /\ \A k \in DOMAIN execCalls :
                  \E i \in DOMAIN hostList : execCalls[k].host = hostList[i]
            /\ (pc = "done" /\ execState = "returned") =>
                  /\ Len(ret.results) = Len(hostList)
                  /\ \A i \in DOMAIN hostList : ret.results[i].host = hostList[i]

\* C19's case: syncFile with the hosts " a", "a" and "b" returns two results,
\* for a and for b.
C19_Witness ==
    /\ op = "syncFile"
    /\ pc = "done"
    /\ args.hosts = Arr(<<Str(<<" ", "a">>), Str(<<"a">>), Str(<<"b">>)>>)
    /\ Len(ret.results) = 2
    /\ ret.results[1].host = Str(<<"a">>)
    /\ ret.results[2].host = Str(<<"b">>)

\* The path is absent, is no string, is empty or holds blanks only.
BlankPath(path) == ~IsString(path) \/ IsBlank(path.str)

\* C20: when localPath or remotePath is not a non-blank string, syncFile
\* invokes no copy or sync primitive and returns a failure result.
C20_BlankPathRejected ==
    (op = "syncFile" /\ (BlankPath(args.localPath) \/ BlankPath(args.remotePath)))
    => /\ execCalls = <<>>
       /\ pc = "done"
       /\ ret.success = FALSE
       /\ ret.results = <<>>
       /\ "message" \in DOMAIN ret

-----------------------------------------------------------------------------
(* Claims about the tallies of syncFile *)

SyncReturned == op = "syncFile" /\ pc = "done" /\ execState = "returned"

\* The indices of the per-host copies that settled without an error.
Succeeded == {i \in DOMAIN outcomes : outcomes[i].ok}

\* C21: in a result of syncFile that passed validation, success is true exactly
\* when the copy to every host succeeded, successCount and failCount are the
\* numbers of hosts whose copy succeeded and failed, and they add up to the
\* number of results, which is the number of deduplicated hosts.
C21_SyncTallies ==
    SyncReturned =>
        LET n == Len(ret.results)
        IN  /\ n = Len(RemainingHosts(args.hosts))
            /\ DOMAIN outcomes = 0 .. n - 1
            /\ \A i \in 1 .. n : ret.results[i].success = outcomes[i - 1].ok
            /\ ret.success = (Succeeded = DOMAIN outcomes)
            /\ ret.successCount = Cardinality(Succeeded)
            /\ ret.failCount = n - Cardinality(Succeeded)
            /\ ret.successCount + ret.failCount = n

\* C21's case: of three hosts, the copies to two succeed and one fails.
C21_Witness ==
    /\ SyncReturned
    /\ Len(ret.results) = 3
    /\ ret.successCount = 2
    /\ ret.failCount = 1
    /\ ~ret.success

-----------------------------------------------------------------------------
(* Claims about the concurrency limit of runWithConcurrency *)

ExecRunning == op = "runWithConcurrency" /\ execState \in {"running", "returned"}

\* limit >= 1, for a limit that is a number
AtLeastOne(lim) == (IsFinite(lim) /\ lim.halves >= 2) \/ lim = Infinity

\* n <= Math.min(lim, length), for a limit that is a number
AtMostMin(n, lim, length) ==
    /\ n <= length
    /\ IsFinite(lim) => 2 * n <= lim.halves

\* C22: at every moment of a run of runWithConcurrency whose limit is at least
\* 1, whatever the interleaving of the workers' completions, the number of
\* worker invocations that have started and not yet completed is at most
\* min(limit, items.length).
C22_InFlightBounded ==
    (ExecRunning /\ AtLeastOne(limit)) =>
        AtMostMin(Cardinality(InFlight), limit, Len(items))

\* C22's case: three items under the limit 2, two workers in flight after a
\* first worker has completed.
C22_Witness ==
    /\ ExecRunning
    /\ limit = Num(2)
    /\ Len(items) = 3
    /\ Cardinality(InFlight) = 2
    /\ Len(finished) = 1

\* The limit is zero, negative, NaN, an infinity or undefined.
NonPositiveOrNonFinite(lim) == ~IsFinite(lim) \/ lim.halves <= 0

\* C23: when the limit of runWithConcurrency is non-positive or non-finite
\* (zero, negative, NaN, plus or minus infinity, undefined), it is clamped to
\* 1: at most one worker invocation is in flight at any moment of the run.
C23_ClampedToOne ==
    (ExecRunning /\ NonPositiveOrNonFinite(limit)) => Cardinality(InFlight) <= 1

-----------------------------------------------------------------------------
(* Claims about the command check of runBatchCommand *)

\* C24: whenever the command handed to runBatchCommand is not a string, or is
\* empty or whitespace only, runBatchCommand returns a structured failure with
\* an empty results array, and the remote-execution primitive is never
\* invoked; with a host in the list the failure says that no command was
\* provided.
C24_NoCommandRejected ==
    (op = "runBatchCommand" /\ ~CommandGiven(args.command)) =>
        /\ pc = "done"
        /\ ret.results = <<>>
        /\ ret.success = FALSE
        /\ ret.message \in {Message("No hosts provided"),
                            Message("No command provided")}
        /\ ~NoHostGiven(args.hosts) => ret.message = Message("No command provided")
        /\ execCalls = <<>>
        /\ execState = "idle"

\* C24's case: two hosts and a command of one blank.
C24_Witness ==
    /\ op = "runBatchCommand"
    /\ pc = "done"
    /\ args.command = Str(<<" ">>)
    /\ Len(UniqueStrings(HostsOrEmpty(args.hosts))) = 2
    /\ ret.message = Message("No command provided")

-----------------------------------------------------------------------------
(* Group-scoped operations in flight together: reloadGroups (410-417) under
   listHostGroups (419-423), runGroupCommand (460-471) and syncFileToGroup
   (639-650) *)

\* The most group-scoped operations of one client in flight at once.
MaxGroupOps == 2

GroupOpNames == {"runGroupCommand", "syncFileToGroup", "listHostGroups"}

\* No operation occupies the slot.
NoGroupOp == [op |-> "none", pc |-> "idle", fresh |-> Empty, seen |-> Empty]

\* The group file as the operations in flight may find it: missing, broken,
\* or one of two documents.
ConcurrentGroupFiles ==
    { [kind |-> "missing"],
      [kind |-> "invalid"],
      [kind |-> "json",
       value |-> Obj(<< <<<<"w">>, Arr(<<Str(<<"a">>), Str(<<"b">>)>>)>>,
                        <<<<"e">>, Arr(<<>>)>> >>)],
      [kind |-> "json",
       value |-> Obj(<< <<<<"w">>, Arr(<<Str(<<"b">>)>>)>>,
                        <<<<"d">>, Arr(<<Str(<<"a">>)>>)>> >>)] }

\* Faulty: the loaded groups are written into the map the client holds.
AssignGroupsInPlace(current, fresh) == fresh @@ current

\* this.groups = await loadGroupsFile(this.groupsPath): the map the client
\* holds after the assignment.
AssignGroups(current, fresh) == fresh

\* A group-scoped operation is called and calls reloadGroups, which, with no
\* groups path, sets this.groups to {} and otherwise starts reading the file.
StartGroupOp(c) ==
    /\ groupOps[c].pc \in {"idle", "done"}
    /\ \E name \in GroupOpNames :
          IF groupsPath = Undefined
          THEN /\ groups' = NoGroups
               /\ loaded' = loaded \cup {NoGroups}
               /\ groupOps' = [groupOps EXCEPT
                                 ![c] = [NoGroupOp EXCEPT
                                           !.op = name,
                                           !.fresh = [map |-> NoGroups],
                                           !.pc = "reloaded"]]
          ELSE /\ groups' = groups
               /\ loaded' = loaded
               /\ groupOps' = [groupOps EXCEPT
                                 ![c] = [NoGroupOp EXCEPT !.op = name,
                                                          !.pc = "reading"]]
    /\ UNCHANGED <<callVars, execVars, groupsFile, groupsPath, reload, cfgVars,
                   seqResults, last, ssh, sshOps>>

\* readFile of operation c's loadGroupsFile reads the file as it is now, and
\* loadGroupsFile builds its map from what was read.
GroupsFileRead(c) ==
    /\ groupOps[c].pc = "reading"
    /\ groupOps' = [groupOps EXCEPT
                      ![c].fresh = [map |-> LoadGroupsFile(groupsFile)],
                      ![c].pc = "loaded"]
    /\ loaded' = loaded \cup {LoadGroupsFile(groupsFile)}
    /\ UNCHANGED <<callVars, execVars, groupVars, cfgVars, seqResults, last,
                   ssh, sshOps>>

\* Faulty: the operation has read this.groups before its reload assigns it.
GroupsAssignedLate(c) ==
    /\ groupOps[c].pc = "loaded"
    /\ groups' = AssignGroups(groups, groupOps[c].fresh.map)
    /\ groupOps' = [groupOps EXCEPT ![c].seen = [map |-> groups],
                                    ![c].pc = "done"]
    /\ UNCHANGED <<callVars, execVars, groupsFile, groupsPath, reload, cfgVars,
                   seqResults, last, loaded, ssh, sshOps>>

\* loadGroupsFile of operation c settles: reloadGroups assigns this.groups and
\* returns, and the operation resumes after `await this.reloadGroups()` and
\* reads this.groups.  The three continuations are promise reactions of one
\* run of the microtask queue, with no file read and no process in between;
\* the assignment of another operation follows the completion of its own
\* readFile, which is delivered in a run of its own.
GroupsAssigned(c) ==
    /\ groupOps[c].pc = "loaded"
    /\ groups' = AssignGroups(groups, groupOps[c].fresh.map)
    /\ groupOps' = [groupOps EXCEPT ![c].seen = [map |-> groups'],
                                    ![c].pc = "done"]
    /\ UNCHANGED <<callVars, execVars, groupsFile, groupsPath, reload, cfgVars,
                   seqResults, last, loaded, ssh, sshOps>>

\* Operation c of a client without groups path resumes after
\* `await this.reloadGroups()` and reads this.groups.
GroupOpResumes(c) ==
    /\ groupOps[c].pc = "reloaded"
    /\ groupOps' = [groupOps EXCEPT ![c].seen = [map |-> groups],
                                    ![c].pc = "done"]
    /\ UNCHANGED <<callVars, execVars, groupVars, cfgVars, seqResults, last,
                   loaded, ssh, sshOps>>

\* Somebody edits, removes or breaks the group file while operations are in
\* flight.
EditGroupsFileMeanwhile ==
    /\ groupsFile' \in ConcurrentGroupFiles \ {groupsFile}
    /\ UNCHANGED <<callVars, execVars, groups, groupsPath, reload, cfgVars,
                   restVars>>

\* A client constructed by main() with the groups of a first load, or
\* constructed without a groups path.
InitConcurrent ==
    /\ CallIdle /\ ExecIdle /\ CfgIdle
    /\ seqResults = <<>>
    /\ last = NoCall
    /\ groupsFile \in ConcurrentGroupFiles
    /\ groupsPath \in {Str(<<"g">>), Undefined}
    /\ groups = LoadGroupsFile(groupsFile)
    /\ reload = [before |-> NoGroups, file |-> Empty]
    /\ groupOps = [c \in 1 .. MaxGroupOps |-> NoGroupOp]
    /\ loaded = {groups}
    /\ ssh = [connection |-> 0]
    /\ sshOps = <<>>

NextConcurrent ==
    \/ \E c \in 1 .. MaxGroupOps : StartGroupOp(c)
    \/ \E c \in 1 .. MaxGroupOps : GroupsFileRead(c)
    \/ \E c \in 1 .. MaxGroupOps : GroupsAssigned(c)
    \/ \E c \in 1 .. MaxGroupOps : GroupOpResumes(c)
    \/ EditGroupsFileMeanwhile

SpecConcurrent == InitConcurrent /\ [][NextConcurrent]_vars

\* C25: with several group-scoped operations in flight on one client and the
\* group file edited meanwhile, the map of the client, and so the map any
\* operation reads when it resumes after its reload, is always one of the maps
\* a single load has built: never a map updated in part, never a mixture of
\* two loads.
C25_SingleLoadSnapshots ==
    /\ groups \in loaded
    /\ \A c \in DOMAIN groupOps :
          groupOps[c].pc = "done" => groupOps[c].seen.map \in loaded

\* C25's case: two operations have read maps of two different loads, both
\* with groups, the file having been edited between their loads.
C25_Witness ==
    /\ Len(groupOps) >= 2
    /\ groupOps[1].pc = "done"
    /\ groupOps[2].pc = "done"
    /\ DOMAIN groupOps[1].seen.map = {<<"w">>, <<"e">>}
    /\ DOMAIN groupOps[2].seen.map = {<<"w">>, <<"d">>}

-----------------------------------------------------------------------------
(* Claims about what a load of the group file keeps *)

\* The file read by the reload of the current call is a JSON document whose
\* top level is an object.
WellFormedRead == reload.file # Empty /\ ~NotAJsonObject(reload.file)

\* The entries of a list that are strings with a non-blank character.
HostStrings(list) ==
    SelectSeq(list, LAMBDA h : IsString(h) /\ ~IsBlank(h.str))

\* C26: after a load of a well-formed group document, every group of the
\* document whose value is not a list is absent from the map, and every group
\* whose value is a list is in the map with exactly the entries of that list
\* that are strings and not empty after trimming, in their original order.
C26_ListsOfHostStrings ==
    WellFormedRead =>
        \A i \in DOMAIN reload.file.value.obj :
            LET groupName == reload.file.value.obj[i][1]
                hosts == reload.file.value.obj[i][2]
            IN  IF IsArray(hosts)
                THEN /\ groupName \in DOMAIN groups
                     /\ groups[groupName] = Arr(HostStrings(hosts.arr))
                ELSE groupName \notin DOMAIN groups

\* C26's case: a group listed as "b", " ", 42, " a" is loaded as "b", " a".
C26_Witness ==
    /\ WellFormedRead
    /\ reload.file.value.obj[1][2] =
          Arr(<<Str(<<"b">>), Str(<<" ">>), Num(42), Str(<<" ", "a">>)>>)
    /\ groups[<<"w">>] = Arr(<<Str(<<"b">>), Str(<<" ", "a">>)>>)

-----------------------------------------------------------------------------
(* Claims about what a reload leaves of the earlier map *)

\* The reloadGroups of the current call has completed.
Reloaded == op = "runGroupCommand" /\ pc \in {"reloaded", "fanout", "done"}

\* The names of the groups of a well-formed document whose value is a list.
ListedGroups(file) ==
    {file.value.obj[i][1] : i \in {j \in DOMAIN file.value.obj :
                                      IsArray(file.value.obj[j][2])}}

\* C27: a reload replaces the map of the client wholesale. After reloadGroups
\* has completed, the map holds exactly the groups of the file as that reload
\* read it, so that no group of the map held before (from an earlier load or
\* from the constructor) survives unless the file has it; the map is empty
\* when the file is missing or is not parseable, and when the client has no
\* groups path.
C27_ReplacedWholesale ==
    Reloaded =>
        /\ groupsPath = Undefined => groups = NoGroups
        /\ (reload.file # Empty /\ reload.file.kind # "json") => groups = NoGroups
        /\ WellFormedRead =>
              /\ DOMAIN groups = ListedGroups(reload.file)
              /\ \A g \in DOMAIN reload.before :
                    g \notin ListedGroups(reload.file) => g \notin DOMAIN groups

\* C27's case: the map held groups w and d before the call, the file read by
\* the reload has groups w and e, and the map now holds w and e only.
C27_Witness ==
    /\ Reloaded
    /\ WellFormedRead
    /\ DOMAIN reload.before = {<<"w">>, <<"d">>}
    /\ DOMAIN groups = {<<"w">>, <<"e">>}
    /\ groups[<<"w">>] = Arr(<<Str(<<"a">>), Str(<<"b">>)>>)

-----------------------------------------------------------------------------
(* Claims about Include directives that find nothing *)

\* The files named by the Include directives of the top level of the root
\* file, in order.
RECURSIVE IncludeTargets(_)
IncludeTargets(lines) ==
    IF lines = <<>>
    THEN <<>>
    ELSE (IF IsInclude(Head(lines))
          THEN ExpandIncludePath(Head(lines).value, ConfigPath)
          ELSE <<>>)
         \o IncludeTargets(Tail(lines))

RootIncludes == LinesBeforeSections(fs[ConfigPath].lines)

\* An Include of the root's top level matches no file, or names a file that
\* cannot be read.
SomeIncludeFails ==
    \/ \E i \in DOMAIN RootIncludes :
          /\ IsInclude(RootIncludes[i])
          /\ ExpandIncludePath(RootIncludes[i].value, ConfigPath) = <<>>
    \/ \E j \in DOMAIN IncludeTargets(RootIncludes) :
          ~Readable(IncludeTargets(RootIncludes)[j])

\* The last n elements of s.
Last(s, n) == SubSeq(s, Len(s) - n + 1, Len(s))

\* C28: an Include that matches no file, or that names a file which cannot be
\* read or parsed, contributes no host and raises nothing: the resolution
\* returns, no returned record comes from such a file, the hosts of the files
\* the other Includes name are returned, and the records of the root file
\* itself come last, in file order.
C28_FailingIncludeContributesNothing ==
    (cfgPc = "returned" /\ Readable(ConfigPath) /\ SomeIncludeFails) =>
        LET targets == IncludeTargets(RootIncludes)
            own == OwnHosts(ConfigPath)
        IN  /\ \A k \in DOMAIN cfgResult : Readable(cfgResult[k].configFile)
            /\ Len(cfgResult) >= Len(own)
            /\ Last(cfgResult, Len(own)) = own
            /\ \A j \in DOMAIN targets :
                  \A k \in DOMAIN OwnHosts(targets[j]) :
                      Among(OwnHosts(targets[j])[k],
                            SubSeq(cfgResult, 1, Len(cfgResult) - Len(own)))
            /\ (\A j \in DOMAIN targets : ~Readable(targets[j])) =>
                  cfgResult = own

\* C28's case: the root includes /h/d/c, which has host c1, and ~/b, which
\* cannot be read, before its own host h3; c1 and h3 are returned.
C28_Witness ==
    /\ cfgPc = "returned"
    /\ Readable(ConfigPath)
    /\ fs[PathB] = Unreadable
    /\ IncludeTargets(RootIncludes) = <<PathC, PathB>>
    /\ Aliases(cfgResult) = << <<"c1">>, <<"h3">> >>

-----------------------------------------------------------------------------
(* Claims about listing hosts when a file is missing or unreadable *)

\* The file is absent or cannot be read.
Unavailable(path) == fs[path].kind \in {"missing", "unreadable"}

\* C29: listKnownHosts does not raise because a file is missing or cannot be
\* read. With the configuration file unavailable the resolution returns no
\* config host and the list is the names of known_hosts, in file order; with
\* known_hosts unavailable the list is the config hosts; with both unavailable
\* it is empty.
C29_UnavailableFilesTolerated ==
    /\ (op = "listKnownHosts" /\ Unavailable(ConfigPath)) =>
          cfgPc = "returned" /\ cfgResult = <<>>
    /\ (ListReturned /\ Unavailable(ConfigPath)) =>
          /\ Len(ret.hosts) = Len(KnownNames)
          /\ \A i \in DOMAIN KnownNames :
                /\ ret.hosts[i].hostname = KnownNames[i]
                /\ ret.hosts[i].source = <<"known_hosts">>
    /\ (ListReturned /\ Unavailable(KnownHostsPath)) =>
          /\ Len(ret.hosts) = Len(cfgResult)
          /\ \A i \in DOMAIN cfgResult :
                /\ ret.hosts[i].alias = cfgResult[i].alias
                /\ ret.hosts[i].hostname = cfgResult[i].hostname
                /\ ret.hosts[i].source = <<"ssh_config">>

\* C29's case: the configuration file cannot be read, and the four names of
\* known_hosts are listed.
C29_Witness ==
    /\ ListReturned
    /\ fs[ConfigPath] = Unreadable
    /\ Len(ret.hosts) = 4
    /\ ret.hosts[1].hostname = <<"n1">>
    /\ ret.hosts[3].hostname = <<"k1">>

-----------------------------------------------------------------------------
(* Claims about which Host blocks yield a record *)

\* The line opens a Host block, directive names being case-insensitive.
IsHostLine(line) == IsDirective(line) /\ Lower(line.param) = "host"

\* The line opens a Host or Match block.
OpensBlock(line) == IsDirective(line) /\ Lower(line.param) \in {"host", "match"}

\* Line j is in the block opened by line i: it comes after it, with no line
\* opening a block from i + 1 to j.
InBlock(lines, i, j) ==
    /\ i < j
    /\ \A k \in i + 1 .. j : ~OpensBlock(lines[k])

\* The Host block opened by line i has a pattern other than `*` and holds a
\* hostname directive with a non-empty value.
NamesAHost(lines, i) ==
    /\ lines[i].value # <<"*">>
    /\ \E j \in DOMAIN lines :
          /\ InBlock(lines, i, j)
          /\ IsDirective(lines[j])
          /\ Lower(lines[j].param) = "hostname"
          /\ lines[j].value # <<>>

\* The patterns of the Host blocks of a file that name a host, in file order.
NamedHosts(lines) ==
    LET at == SelectSeq([i \in DOMAIN lines |-> i],
                        LAMBDA i : IsHostLine(lines[i]) /\ NamesAHost(lines, i))
    IN  [k \in DOMAIN at |-> lines[at[k]].value]

\* The records of the resolved list that come from the root file.
RootRecords == SelectSeq(cfgResult, LAMBDA host : host.configFile = ConfigPath)

\* C30: a Host block yields a record if and only if its pattern is not `*` and
\* a hostname directive with a non-empty value occurs in the block: the
\* records a returned resolution has from the root file are those of its Host
\* blocks that name a host, one each, in file order; and every returned record
\* has a non-empty hostname.
C30_RecordIffHostnamed ==
    (cfgPc = "returned" /\ Readable(ConfigPath)) =>
        /\ \A k \in DOMAIN cfgResult : cfgResult[k].hostname # <<>>
        /\ Aliases(RootRecords) = NamedHosts(fs[ConfigPath].lines)

-----------------------------------------------------------------------------
(* Claims about the names read from known_hosts *)

\* The line without its leading blanks.
RECURSIVE SkipBlanks(_)
SkipBlanks(line) ==
    IF line # <<>> /\ Head(line) = " " THEN SkipBlanks(Tail(line)) ELSE line

\* The first whitespace-delimited field of the line.
FirstField(line) == SplitFirst(SkipBlanks(line), " ")

\* The line is neither blank nor a comment.
IsEntryLine(line) == ~IsBlank(line) /\ Head(line) # "#"

\* For each line that is neither blank nor a comment, in file order, the first
\* comma-delimited token of its first whitespace-delimited field.
FirstTokens(lines) ==
    LET entries == SelectSeq(lines, IsEntryLine)
    IN  [k \in DOMAIN entries |-> SplitFirst(FirstField(entries[k]), ",")]

\* The hostnames of the records of a list.
Hostnames(hosts) == [i \in DOMAIN hosts |-> hosts[i].hostname]

\* C31: the known_hosts reader skips blank lines and lines starting with `#`
\* and returns, for each remaining line in file order, the first
\* comma-delimited token of the line's first whitespace-delimited field; seen
\* on a client without configuration file, whose host list is the names read.
C31_FirstTokenPerLine ==
    (ListReturned /\ Unavailable(ConfigPath) /\ Readable(KnownHostsPath)) =>
        Hostnames(ret.hosts) = FirstTokens(fs[KnownHostsPath].lines)

-----------------------------------------------------------------------------
(* Claims about failing copies of syncFile *)

\* The indices of the hosts whose copy failed or timed out.
FailedCopies == {i \in DOMAIN outcomes : outcomes[i] # Empty /\ ~outcomes[i].ok}

\* C32: in syncFile, a copy or sync primitive that fails or times out for one
\* host is recorded as that host's outcome with success false and is never
\* raised: the fan-out runs on until it returns, the primitive is invoked once
\* for every host of the deduplicated list, and the call returns one outcome
\* per such host, carrying its host name.
C32_SyncIsolation ==
    /\ (op = "syncFile" /\ pc = "fanout") => execState = "running"
    /\ SyncReturned =>
          /\ items = RemainingHosts(args.hosts)
          /\ Len(execCalls) = Len(items)
          /\ \A i \in 1 .. Len(items) : execCalls[i].host = items[i]
          /\ Len(ret.results) = Len(items)
          /\ \A i \in 1 .. Len(items) : ret.results[i].host = items[i]
          /\ \A i \in FailedCopies :
                /\ ret.results[i + 1].success = FALSE
                /\ ret.results[i + 1].error = outcomes[i].error.message

\* C32's case: of three hosts the copy to the second times out; the copy to
\* the third is still made and succeeds.
C32_Witness ==
    /\ SyncReturned
    /\ Len(items) = 3
    /\ FailedCopies = {1}
    /\ outcomes[1].error.code = Null
    /\ finished = <<0, 1, 2>>
    /\ ret.results[2].success = FALSE
    /\ ret.results[3].success = TRUE

-----------------------------------------------------------------------------
(* syncFileToGroup (639-650) *)

\* The options of a sync: those of SyncOptionArgs, and useRsync and delete
\* given as other values than booleans, or one without the other.
CopyModeArgs ==
    SyncOptionArgs \cup
    { [useRsync |-> u, delete |-> d, concurrency |-> Undefined,
       timeoutMs |-> Undefined] :
        u \in {Bool(TRUE), Bool(FALSE), Str(<<"t">>)},
        d \in {Bool(TRUE), Num(1), Undefined} }

\* syncFileToGroup(localPath, remotePath, group, options) is called:
\* reloadGroups starts reading the group file, or, with no groups path,
\* empties the map.
CallSyncFileToGroup ==
    /\ pc = "idle"
    /\ \E paths \in PathArgs, group \in GroupArgs, options \in CopyModeArgs :
          /\ op' = "syncFileToGroup"
          /\ args' = [localPath |-> paths[1], remotePath |-> paths[2],
                      group |-> group, options |-> options]
    /\ IF groupsPath = Undefined
       THEN groups' = NoGroups /\ pc' = "reloaded"
       ELSE groups' = groups /\ pc' = "reloading"
    /\ reload' = [before |-> groups, file |-> Empty]
    /\ UNCHANGED <<ret, execCalls, execVars, groupsFile, groupsPath, cfgVars>>
    /\ UNCHANGED restVars

\* Faulty: the group is looked up in the map held before the reload.
SyncFileToGroupStale ==
    /\ op = "syncFileToGroup"
    /\ pc = "reloaded"
    /\ LET groupName == GroupName(args.group)
           hosts == GroupHosts(reload.before, groupName)
       IN  IF groupName = <<>>
           THEN /\ pc' = "done"
                /\ ret' = Failure(Message("No group provided"))
                /\ UNCHANGED <<execCalls, execVars>>
           ELSE IF ~IsArray(hosts) \/ hosts.arr = <<>>
           THEN /\ pc' = "done"
                /\ ret' = Failure(GroupNotFound(groupName))
                /\ UNCHANGED <<execCalls, execVars>>
           ELSE EnterSyncFile(args.localPath, args.remotePath, hosts, args.options)
    /\ UNCHANGED <<op, args, groupVars, cfgVars>>
    /\ UNCHANGED restVars

\* syncFileToGroup resumes after `await this.reloadGroups()`.
SyncFileToGroupResumes ==
    /\ op = "syncFileToGroup"
    /\ pc = "reloaded"
    /\ LET groupName == GroupName(args.group)
           hosts == GroupHosts(groups, groupName)
       IN  IF groupName = <<>>
           THEN /\ pc' = "done"
                /\ ret' = Failure(Message("No group provided"))
                /\ UNCHANGED <<execCalls, execVars>>
           ELSE IF ~IsArray(hosts) \/ hosts.arr = <<>>
           THEN /\ pc' = "done"
                /\ ret' = Failure(GroupNotFound(groupName))
                /\ UNCHANGED <<execCalls, execVars>>
           ELSE EnterSyncFile(args.localPath, args.remotePath, hosts, args.options)
    /\ UNCHANGED <<op, args, groupVars, cfgVars>>
    /\ UNCHANGED restVars

\* syncFileToGroup on a client constructed by main().
InitGroupSync == InitGroup

NextGroupSync ==
    \/ CallSyncFileToGroup
    \/ ReloadGroupsSettles
    \/ SyncFileToGroupResumes
    \/ EditGroupsFile
    \/ CopySettles
    \/ SyncFileReturns

SpecGroupSync == InitGroupSync /\ [][NextGroupSync]_vars

\* What syncFile returns for the given paths, hosts and options when the copy
\* to the i-th host of the deduplicated list settles as outs[i - 1].
SyncFileResult(localPath, remotePath, hosts, options, outs) ==
    LET hostList == RemainingHosts(hosts)
        res == [i \in DOMAIN hostList |-> SyncWorkerValue(hostList[i], outs[i - 1])]
        ok == {i \in DOMAIN hostList : outs[i - 1].ok}
    IN  IF hostList = <<>> THEN Failure(Message("No hosts provided"))
        ELSE IF NoPath(localPath) THEN Failure(Message("No local path provided"))
        ELSE IF NoPath(remotePath) THEN Failure(Message("No remote path provided"))
        ELSE [results |-> res,
              success |-> ok = DOMAIN hostList,
              successCount |-> Cardinality(ok),
              failCount |-> Len(hostList) - Cardinality(ok)]

\* The map of the reload of the current call.
FreshGroups ==
    IF groupsPath = Undefined THEN NoGroups ELSE LoadGroupsFile(reload.file)

\* C33: syncFileToGroup reloads the group file first. For a blank, unknown or
\* empty group it returns a failure result and invokes no copy or sync
\* primitive; otherwise its result is that of syncFile called with the same
\* paths and options on the host list the freshly loaded map has for the
\* group, and the primitive is invoked for the hosts of that list only.
C33_GroupSyncDelegates ==
    (op = "syncFileToGroup" /\ pc \in {"reloaded", "fanout", "done"}) =>
        /\ groupsPath # Undefined => reload.file # Empty
        /\ pc = "done" =>
              LET groupName == GroupName(args.group)
              IN  IF \/ groupName = <<>>
                     \/ groupName \notin DOMAIN FreshGroups
                     \/ FreshGroups[groupName].arr = <<>>
                  THEN /\ ret.success = FALSE
                       /\ ret.results = <<>>
                       /\ "message" \in DOMAIN ret
                       /\ execCalls = <<>>
                       /\ execState = "idle"
                  ELSE /\ ret = SyncFileResult(args.localPath, args.remotePath,
                                               FreshGroups[groupName],
                                               args.options, outcomes)
                       /\ \A k \in DOMAIN execCalls :
                             Among(execCalls[k].host,
                                   RemainingHosts(FreshGroups[groupName]))

\* C33's case: the map held group w as a, b before the call, the file read by
\* the reload lists w as b, " a", and the copies go to b and to " a", the
\* second failing.
C33_Witness ==
    /\ op = "syncFileToGroup"
    /\ pc = "done"
    /\ execState = "returned"
    /\ <<"w">> \in DOMAIN reload.before
    /\ reload.before[<<"w">>] = Arr(<<Str(<<"a">>), Str(<<"b">>)>>)
    /\ GroupName(args.group) = <<"w">>
    /\ Len(ret.results) = 2
    /\ ret.results[1].host = Str(<<"b">>)
    /\ ret.results[1].success
    /\ ~ret.results[2].success

-----------------------------------------------------------------------------
(* Claims about the directives a record keeps *)

RecognizedNames == {"hostname", "user", "port", "identityfile"}

\* The lines of the block opened by line i that carry the directive `name`,
\* names being compared in lower case.
LinesNaming(lines, i, name) ==
    {j \in DOMAIN lines :
        /\ InBlock(lines, i, j)
        /\ IsDirective(lines[j])
        /\ Lower(lines[j].param) = name}

\* The value of the last line of the block opened by line i that carries the
\* directive `name`.
LastValue(lines, i, name) ==
    LET at == LinesNaming(lines, i, name)
    IN  lines[CHOOSE j \in at : \A k \in at : k <= j].value

\* The directive names of the block opened by line i that are not recognized,
\* in lower case.
OtherNames(lines, i) ==
    {Lower(lines[j].param) :
        j \in {k \in DOMAIN lines : InBlock(lines, i, k) /\ IsDirective(lines[k])}}
    \ RecognizedNames

\* The record is that of the Host block opened by line i of the file at
\* `path`: its alias is the pattern, its source file is the path, its hostname
\* is the value of the last hostname directive, and every other directive of
\* the block is kept under its lowercased name with its last value.
RecordOfBlock(host, path, lines, i) ==
    /\ IsHostLine(lines[i])
    /\ host.alias = lines[i].value
    /\ host.configFile = path
    /\ LinesNaming(lines, i, "hostname") # {}
    /\ host.hostname = LastValue(lines, i, "hostname")
    /\ \A name \in OtherNames(lines, i) :
          /\ name \in DOMAIN host
          /\ host[name] = LastValue(lines, i, name)

\* C34: within a Host block, a directive that is not hostname, user, port or
\* identityfile is stored under its lowercased name, the last value winning,
\* and never changes the named fields of the record: every record of a
\* returned resolution is the record of a Host block of its source file, with
\* the block's pattern as its alias, whatever other directive names occur in
\* the block.
C34_OtherDirectivesKeptApart ==
    cfgPc = "returned" =>
        \A k \in DOMAIN cfgResult :
            LET host == cfgResult[k]
                lines == fs[host.configFile].lines
            IN  \E i \in DOMAIN lines :
                    RecordOfBlock(host, host.configFile, lines, i)

-----------------------------------------------------------------------------
(* Claims about the origin tag of the listed records *)

OriginTags == { <<"ssh_config">>, <<"known_hosts">> }

\* C35: every record listKnownHosts returns carries one origin tag: the
\* records resolved from the configuration tree, which come first, are tagged
\* ssh_config, and the records appended from known_hosts are tagged
\* known_hosts, whatever directives the Host blocks hold.
C35_OneOriginTag ==
    ListReturned =>
        /\ Len(ret.hosts) >= Len(cfgResult)
        /\ \A i \in DOMAIN ret.hosts :
              /\ "source" \in DOMAIN ret.hosts[i]
              /\ ret.hosts[i].source \in OriginTags
              /\ ret.hosts[i].source = <<"ssh_config">> <=> i <= Len(cfgResult)

\* C35's case: the first config host comes from a block with the line `Source
\* known_hosts`, and a name of known_hosts is appended after the config hosts.
C35_Witness ==
    /\ ListReturned
    /\ Len(cfgResult) >= 1
    /\ "source" \in DOMAIN cfgResult[1]
    /\ cfgResult[1].source = <<"known_hosts">>
    /\ ret.hosts[1].source = <<"ssh_config">>
    /\ Len(ret.hosts) > Len(cfgResult)

-----------------------------------------------------------------------------
(* Claims about the map a group-scoped operation resolves its group in *)

\* The group names an operation may be called with.
GroupNames == {<<"w">>, <<"e">>, <<"d">>, <<"z">>}

\* C36: under every interleaving of group-scoped operations in flight on one
\* client, and of edits of the file, the host list an operation finds under
\* its group name, and fans out to, is the list the map of its own reload has
\* under that name, not that of a map another operation's reload produced.
C36_OwnReloadResolves ==
    \A c \in DOMAIN groupOps :
        groupOps[c].pc = "done" =>
            \A groupName \in GroupNames :
                GroupHosts(groupOps[c].seen.map, groupName)
                    = GroupHosts(groupOps[c].fresh.map, groupName)

\* C36's case: the first operation read the file before an edit and the second
\* after it; the second assigned its map first, the first assigned and resumed
\* after it and resolved group w in its own, older map, which the client now
\* holds.
C36_Witness ==
    /\ Len(groupOps) >= 2
    /\ groupOps[1].pc = "done"
    /\ groupOps[2].pc = "done"
    /\ GroupHosts(groupOps[1].seen.map, <<"w">>) = Arr(<<Str(<<"a">>), Str(<<"b">>)>>)
    /\ GroupHosts(groupOps[2].seen.map, <<"w">>) = Arr(<<Str(<<"b">>)>>)
    /\ groups = groupOps[1].seen.map
    /\ LoadGroupsFile(groupsFile) = groupOps[2].seen.map

-----------------------------------------------------------------------------
(* Claims about the copy mode of syncFile *)

\* The flag is one of the flags of the invocation.
HasFlag(call, flag) == \E i \in DOMAIN call.flags : call.flags[i] = flag

\* C37: syncFile serves each host by rsync iff the useRsync option is exactly
\* true, and by scp -r otherwise; --delete is passed iff useRsync is true and
\* the delete option is truthy, so that delete has no effect in copy mode.
C37_CopyMode ==
    op \in {"syncFile", "syncFileToGroup"} =>
        \A k \in DOMAIN execCalls :
            LET call == execCalls[k]
                mirroring == args.options.useRsync = Bool(TRUE)
            IN  /\ call.file = "rsync" <=> mirroring
                /\ call.file = "scp" <=> ~mirroring
                /\ call.file = "scp" => call.flags = <<"-r">>
                /\ HasFlag(call, "--delete")
                      <=> (mirroring /\ ~Falsy(args.options.delete))

\* C37's case: useRsync is a non-empty string and delete is true; the host is
\* served by scp -r.
C37_Witness ==
    /\ op = "syncFileToGroup"
    /\ pc = "done"
    /\ execState = "returned"
    /\ args.options.useRsync = Str(<<"t">>)
    /\ args.options.delete = Bool(TRUE)
    /\ Len(execCalls) = 2
    /\ execCalls[1].file = "scp"
    /\ execCalls[1].flags = <<"-r">>

-----------------------------------------------------------------------------
(* Claims about hosts that are reached more than once *)

\* The files named by the Include directives of the top level of the file at
\* `path`, in order.
RECURSIVE IncludeTargetsFrom(_, _)
IncludeTargetsFrom(lines, base) ==
    IF lines = <<>>
    THEN <<>>
    ELSE (IF IsInclude(Head(lines))
          THEN ExpandIncludePath(Head(lines).value, base)
          ELSE <<>>)
         \o IncludeTargetsFrom(Tail(lines), base)

IncludeTargetsOf(path) ==
    IncludeTargetsFrom(LinesBeforeSections(fs[path].lines), path)

\* How many times the resolution of the file at `path` processes the file at
\* `target`: once if it is the file itself, and once for every time a file
\* named by an Include of its top level does.
RECURSIVE Visits(_, _), VisitsOfPaths(_, _)
Visits(path, target) ==
    IF Readable(path)
    THEN (IF path = target THEN 1 ELSE 0)
         + VisitsOfPaths(IncludeTargetsOf(path), target)
    ELSE 0

VisitsOfPaths(paths, target) ==
    IF paths = <<>>
    THEN 0
    ELSE Visits(Head(paths), target) + VisitsOfPaths(Tail(paths), target)

\* The records of the resolved list that come from the file at `path`.
RecordsOf(path) == SelectSeq(cfgResult, LAMBDA host : host.configFile = path)

\* C38: host resolution does not deduplicate. A file reached through k
\* Include paths contributes each of its Host records k times to the resolved
\* list, and Host blocks with the same alias in different files all appear.
C38_NoDeduplication ==
    cfgPc = "returned" =>
        \A path \in Paths :
            /\ Len(RecordsOf(path)) = Visits(ConfigPath, path) * Len(OwnHosts(path))
            /\ \A i \in DOMAIN OwnHosts(path) :
                  Cardinality({k \in DOMAIN cfgResult : cfgResult[k] = OwnHosts(path)[i]})
                      >= Visits(ConfigPath, path)

\* C38's case: /h/d/c is reached twice, from the root and from /h/b, and its
\* host c1 is returned twice.
C38_Witness ==
    /\ cfgPc = "returned"
    /\ Visits(ConfigPath, PathC) = 2
    /\ Len(RecordsOf(PathC)) = 2
    /\ RecordsOf(PathC)[1] = RecordsOf(PathC)[2]
    /\ Len(cfgResult) = 5

(***************************************************************************)
(* The client built on node-ssh: src/src/ssh-client.ts                     *)
(*                                                                         *)
(* The client owns one NodeSSH instance, this.ssh (constructor, 9-12), and *)
(* every operation works through it.  Of the library the model keeps what  *)
(* the client relies on: connect() makes a new connection and stores it in *)
(* the instance, without looking at the one stored before; execCommand(),  *)
(* putFile() and getFile() work on the connection stored in the instance   *)
(* when they are called, and fail when there is none; dispose() ends the   *)
(* connection stored in the instance and clears it.                        *)
(***************************************************************************)

\* How many operations are called on the client.
MaxNodeOps == 2

NodeOpNames ==
    {"runRemoteCommand", "checkConnectivity", "uploadFile", "downloadFile",
     "runCommandBatch"}

\* The aliases the configuration declares, and the aliases operations name.
ConfiguredAliases == {"h1", "h2"}
CalledAliases == ConfiguredAliases \cup {"hx"}

\* The lengths of the command list of runCommandBatch.
BatchLengths == {0, 2}

\* The record of an operation: the connection its connect() made is the one
\* numbered like the operation, in state socket; target is the connection its
\* remote step in flight works on, on the connections its remote steps
\* completed on, cut the operation whose dispose() ended a connection this
\* one was using.
NoNodeOp ==
    [name |-> "none", host |-> "none", steps |-> 0, pc |-> "idle",
     socket |-> "none", target |-> 0, on |-> <<>>, cut |-> 0, ret |-> "none"]

\* Operation d is using connection k: it waits for k to become ready, or it
\* has a remote step in flight on k.
Using(ops, d, k) ==
    \/ ops[d].pc = "connect" /\ d = k
    \/ ops[d].pc = "exec" /\ ops[d].target = k

\* this.ssh.dispose() called by operation c.
Dispose(st, c) ==
    LET k == st.conn.connection
    IN  IF k = 0
        THEN st
        ELSE [conn |-> [connection |-> 0],
              ops |-> [d \in DOMAIN st.ops |->
                         LET o == [st.ops[d] EXCEPT
                                     !.cut = IF d # c /\ Using(st.ops, d, k)
                                             THEN c ELSE @]
                         IN  IF d = k THEN [o EXCEPT !.socket = "closed"]
                             ELSE o]]

\* Operation c returns what it returns on success; each operation disposes
\* first (46, 71, 96, 112, 146).
ReturnsOk(st, c) ==
    LET st1 == Dispose(st, c)
    IN  [st1 EXCEPT !.ops[c].pc = "returned", !.ops[c].ret = "ok",
                    !.ops[c].target = 0]

\* An error reached the catch of operation c: it returns its failure value,
\* and runRemoteCommand alone disposes, in its finally (45-47).
Caught(st, c) ==
    LET st1 == IF st.ops[c].name = "runRemoteCommand" THEN Dispose(st, c)
               ELSE st
    IN  [st1 EXCEPT !.ops[c].pc = "returned", !.ops[c].ret = "failed",
                    !.ops[c].target = 0]

\* Operation c calls execCommand, putFile or getFile, which fails when the
\* instance stores no connection or one that is not ready; with nothing left
\* to run the operation disposes and returns.
RemoteStep(st, c) ==
    LET k == st.conn.connection
    IN  IF st.ops[c].steps = 0 THEN ReturnsOk(st, c)
        ELSE IF k = 0 \/ st.ops[k].socket # "open" THEN Caught(st, c)
        ELSE [st EXCEPT !.ops[c].pc = "exec", !.ops[c].target = k]

NodeSshState == [conn |-> ssh, ops |-> sshOps]

NodeSshFrame ==
    UNCHANGED <<callVars, execVars, groupVars, cfgVars, seqResults, last,
                groupOps, loaded>>

\* The c-th operation is called on the client and, in connectToHost, awaits
\* getHostInfo.
CallNodeSsh(c) ==
    /\ sshOps[c].pc = "idle"
    /\ c > 1 => sshOps[c - 1].pc # "idle"
    /\ \E name \in NodeOpNames, host \in CalledAliases :
       \E n \in IF name = "runCommandBatch" THEN BatchLengths ELSE {1} :
          sshOps' = [sshOps EXCEPT
                       ![c] = [NoNodeOp EXCEPT !.name = name, !.host = host,
                                               !.steps = n,
                                               !.pc = "getHostInfo"]]
    /\ ssh' = ssh
    /\ NodeSshFrame

\* getHostInfo settles in connectToHost of operation c: an alias that is not
\* configured throws, any other is connected to with this.ssh.connect().
GetHostInfoSettles(c) ==
    /\ sshOps[c].pc = "getHostInfo"
    /\ LET st == IF sshOps[c].host \notin ConfiguredAliases
                 THEN Caught(NodeSshState, c)
                 ELSE [conn |-> [connection |-> c],
                       ops |-> [sshOps EXCEPT ![c].socket = "connecting",
                                              ![c].pc = "connect"]]
       IN  ssh' = st.conn /\ sshOps' = st.ops
    /\ NodeSshFrame

\* The connection of operation c becomes ready: connect() resolves,
\* connectToHost returns and the operation makes its first remote step.
ConnectReady(c) ==
    /\ sshOps[c].pc = "connect"
    /\ sshOps[c].socket = "connecting"
    /\ LET st == RemoteStep([conn |-> ssh,
                             ops |-> [sshOps EXCEPT ![c].socket = "open"]], c)
       IN  ssh' = st.conn /\ sshOps' = st.ops
    /\ NodeSshFrame

\* The connection of operation c fails or was ended: it closes, the instance
\* forgets it if it still stores it, connect() rejects and connectToHost
\* throws (182-186).
ConnectFails(c) ==
    /\ sshOps[c].pc = "connect"
    /\ LET st == Caught([conn |-> IF ssh.connection = c
                                  THEN [connection |-> 0] ELSE ssh,
                         ops |-> [sshOps EXCEPT ![c].socket = "closed"]], c)
       IN  ssh' = st.conn /\ sshOps' = st.ops
    /\ NodeSshFrame

\* The remote step of operation c completes on the connection it was made
\* on, be it ended meanwhile or not: the operation makes its next step, or
\* disposes and returns.
RemoteStepResolves(c) ==
    /\ sshOps[c].pc = "exec"
    /\ LET st == RemoteStep([conn |-> ssh,
                             ops |-> [sshOps EXCEPT
                                        ![c].on = Append(@, sshOps[c].target),
                                        ![c].steps = @ - 1]], c)
       IN  ssh' = st.conn /\ sshOps' = st.ops
    /\ NodeSshFrame

\* The remote step of operation c fails: the channel is refused, the command
\* cannot be started, the file is missing.  The connection stays as it is.
RemoteStepRejects(c) ==
    /\ sshOps[c].pc = "exec"
    /\ LET st == Caught(NodeSshState, c)
       IN  ssh' = st.conn /\ sshOps' = st.ops
    /\ NodeSshFrame

\* A client as its constructor leaves it (9-12), before any operation.
InitNodeSsh ==
    /\ CallIdle /\ ExecIdle /\ CfgIdle
    /\ groups = NoGroups
    /\ groupsFile = [kind |-> "missing"]
    /\ groupsPath = Undefined
    /\ reload = [before |-> NoGroups, file |-> Empty]
    /\ seqResults = <<>>
    /\ last = NoCall
    /\ groupOps = <<>>
    /\ loaded = {}
    /\ ssh = [connection |-> 0]
    /\ sshOps = [c \in 1 .. MaxNodeOps |-> NoNodeOp]

NextNodeSsh ==
    \/ \E c \in 1 .. MaxNodeOps : CallNodeSsh(c)
    \/ \E c \in 1 .. MaxNodeOps : GetHostInfoSettles(c)
    \/ \E c \in 1 .. MaxNodeOps : ConnectReady(c)
    \/ \E c \in 1 .. MaxNodeOps : ConnectFails(c)
    \/ \E c \in 1 .. MaxNodeOps : RemoteStepResolves(c)
    \/ \E c \in 1 .. MaxNodeOps : RemoteStepRejects(c)

SpecNodeSsh == InitNodeSsh /\ [][NextNodeSsh]_vars

\* C39: in the client built on node-ssh, an operation that has returned after
\* its connection was established has left that connection disposed, whether
\* it returns its success value or its failure value.
C39_DisposedByReturn ==
    \A c \in DOMAIN sshOps :
        sshOps[c].pc = "returned" => sshOps[c].socket # "open"

\* C40: operations in flight together on one client for different hosts do
\* not interfere: every remote step of an operation completes on a connection
\* to the host its call names, and no dispose() of another operation has
\* ended a connection the operation was using.
C40_NoInterference ==
    \A c \in DOMAIN sshOps :
        /\ \A i \in DOMAIN sshOps[c].on :
              sshOps[sshOps[c].on[i]].host = sshOps[c].host
        /\ sshOps[c].cut # 0 =>
              sshOps[sshOps[c].cut].host = sshOps[c].host

=============================================================================
